---- MODULE Spec2Model ----
(***************************************************************************)
(* Model of the College-Chatbot backend (src/app.py): the CollegeAI        *)
(* response selector (tokenizer, scorer, two-tier ranker, personalization, *)
(* conversation history) and the admin CRUD handlers of the knowledge and  *)
(* location tiers with their whole-file persistence.                       *)
(*                                                                         *)
(* Representation.  A Python str is a sequence of one-character strings,   *)
(* so that lower(), strip(), endswith(), the substring test and the        *)
(* regular expressions are computed character by character.  A Python     *)
(* value that may be None is a sequence of length 0 (None) or 1.           *)
(* Every built-in response literal and default template is several hundred *)
(* characters long; each is represented by its last 10 characters, which   *)
(* is the only part strip().endswith('?') and the concatenation of the     *)
(* follow-up suffix depend on (the 22 tails are pairwise distinct).        *)
(***************************************************************************)
EXTENDS Integers, Sequences, FiniteSets, TLC

VARIABLES
  admin_knowledge,       \* ai_assistant.admin_knowledge (list of dicts)
  knowledge_file,        \* content of data/knowledge.json
  locations_store,       \* module-level locations_store (list of dicts)
  locations_file,        \* content of data/locations.json
  uploads,               \* file names present in data/uploads
  conversation_history,  \* ai_assistant.conversation_history
  next_uuid,             \* number of uuid4() values handed out so far
  now,                   \* the wall clock read by datetime.now()
  last,                  \* the last request handled and its HTTP answer
  inflight               \* per worker thread, the handler it is running

vars == << admin_knowledge, knowledge_file, locations_store, locations_file,
           uploads, conversation_history, next_uuid, now, last, inflight >>

(***************************************************************************)
(* Python values.                                                          *)
(***************************************************************************)
None == << >>
Some(x) == << x >>

(***************************************************************************)
(* str helpers.                                                            *)
(***************************************************************************)
UpperCase ==
  <<"A","B","C","D","E","F","G","H","I","J","K","L","M",
    "N","O","P","Q","R","S","T","U","V","W","X","Y","Z">>
LowerCase ==
  <<"a","b","c","d","e","f","g","h","i","j","k","l","m",
    "n","o","p","q","r","s","t","u","v","w","x","y","z">>
Digits == {"0","1","2","3","4","5","6","7","8","9"}
Whitespace == {" ", "\n", "\t", "\r"}

Range(s) == { s[i] : i \in 1..Len(s) }

\* U+212A KELVIN SIGN, a letter outside ASCII whose lowercase is "k"
KELVIN == "U+212A"

lower_char(c) ==
  IF \E i \in 1..26 : UpperCase[i] = c
    THEN LowerCase[CHOOSE i \in 1..26 : UpperCase[i] = c]
    ELSE IF c = KELVIN THEN "k"
    ELSE c

\* str.lower()
lower(s) == [ i \in 1..Len(s) |-> lower_char(s[i]) ]

IsAlnum(c) == c \in Range(LowerCase) \cup Range(UpperCase) \cup Digits

\* k in s
contains(k, s) ==
  \E i \in 0..(Len(s) - Len(k)) : SubSeq(s, i + 1, i + Len(k)) = k

\* s.endswith(suffix)
endswith(s, suffix) ==
  /\ Len(suffix) <= Len(s)
  /\ SubSeq(s, Len(s) - Len(suffix) + 1, Len(s)) = suffix

RECURSIVE lstrip(_)
lstrip(s) ==
  IF s /= << >> /\ Head(s) \in Whitespace THEN lstrip(Tail(s)) ELSE s

RECURSIVE rstrip(_)
rstrip(s) ==
  IF s /= << >> /\ s[Len(s)] \in Whitespace
    THEN rstrip(SubSeq(s, 1, Len(s) - 1))
    ELSE s

\* str.strip()
strip(s) == lstrip(rstrip(s))

\* bool(x) of a str or a list
truthy(x) == x /= << >>

\* re.findall(r"[a-zA-Z0-9]+", s): the maximal runs of letters and digits,
\* left to right; a run starts where a letter or digit follows none, and
\* stops before the next character that is neither.
findall_alnum(s) ==
  LET starts == { i \in 1..Len(s) :
                    IsAlnum(s[i]) /\ (i = 1 \/ ~ IsAlnum(s[i - 1])) }
      stop(i) == CHOOSE j \in i..Len(s) :
                   /\ j = Len(s) \/ ~ IsAlnum(s[j + 1])
                   /\ \A k \in i..j : IsAlnum(s[k])
      nth(n) == CHOOSE i \in starts :
                  Cardinality({ j \in starts : j < i }) = n - 1
  IN  [ n \in 1..Cardinality(starts) |-> SubSeq(s, nth(n), stop(nth(n))) ]

(***************************************************************************)
(* CollegeAI.__init__: the stopwords, and the built-in knowledge base in   *)
(* the iteration order of the dict literal.                                *)
(***************************************************************************)
_stopwords ==
  { <<"t","h","e">>, <<"a">>, <<"a","n">>, <<"a","n","d">>,
    <<"o","r">>, <<"b","u","t">>, <<"i","f">>, <<"t","h","e","n">>,
    <<"e","l","s","e">>, <<"o","n">>, <<"i","n">>, <<"a","t">>,
    <<"f","o","r">>, <<"t","o">>, <<"f","r","o","m">>, <<"b","y">>,
    <<"w","i","t","h">>, <<"o","f">>, <<"i","s">>, <<"a","r","e">>,
    <<"w","a","s">>, <<"w","e","r","e">>, <<"b","e">>, <<"b","e","e","n">>,
    <<"i","t">>, <<"t","h","i","s">>, <<"t","h","a","t">>, <<"t","h","e","s","e">>,
    <<"t","h","o","s","e">>, <<"a","s">>, <<"a","b","o","u","t">>, <<"i","n","t","o">>,
    <<"o","v","e","r">>, <<"u","n","d","e","r">>, <<"a","f","t","e","r">>, <<"b","e","f","o","r","e">>,
    <<"b","e","t","w","e","e","n">>, <<"h","o","w">>, <<"w","h","a","t">>, <<"w","h","e","n">>,
    <<"w","h","e","r","e">>, <<"w","h","i","c","h">>, <<"w","h","o">>, <<"w","h","o","m">>,
    <<"w","h","y">>, <<"c","a","n">>, <<"d","o">>, <<"d","o","e","s">>,
    <<"d","i","d">>, <<"w","i","l","l">>, <<"w","o","u","l","d">>, <<"s","h","o","u","l","d">>,
    <<"c","o","u","l","d">>, <<"m","a","y">>, <<"m","i","g","h","t">>, <<"y","o","u">>,
    <<"y","o","u","r">>, <<"y","o","u","r","s">>, <<"w","e">>, <<"o","u","r">>,
    <<"o","u","r","s">>, <<"t","h","e","y">>, <<"t","h","e","i","r">>, <<"t","h","e","i","r","s">>,
    <<"i">>, <<"m","e">>, <<"m","y">>, <<"m","i","n","e">> }

knowledge_base ==
  <<
  [ category  |-> "admission",
    keywords  |-> <<
        <<"a","d","m","i","s","s","i","o","n">>,
        <<"r","e","q","u","i","r","e","m","e","n","t","s">>,
        <<"a","p","p","l","y">>,
        <<"a","p","p","l","i","c","a","t","i","o","n">>,
        <<"e","n","r","o","l","l">>,
        <<"e","n","r","o","l","l","m","e","n","t">> >>,
    responses |-> <<
        <<"r"," ","p","r","o","g","r","a","m","?">>,
        <<"o","r"," ","r","e","v","i","e","w",".">> >> ],
  [ category  |-> "courses",
    keywords  |-> <<
        <<"c","o","u","r","s","e">>,
        <<"c","l","a","s","s">>,
        <<"m","a","j","o","r">>,
        <<"p","r","o","g","r","a","m">>,
        <<"c","u","r","r","i","c","u","l","u","m">>,
        <<"s","y","l","l","a","b","u","s">> >>,
    responses |-> <<
        <<" ","y","o","u"," ","m","o","s","t","?">>,
        <<"o","r","t","u","n","i","t","i","e","s">> >> ],
  [ category  |-> "financial_aid",
    keywords  |-> <<
        <<"f","i","n","a","n","c","i","a","l">>,
        <<"a","i","d">>,
        <<"s","c","h","o","l","a","r","s","h","i","p">>,
        <<"c","o","s","t">>,
        <<"t","u","i","t","i","o","n">>,
        <<"f","e","e">>,
        <<"m","o","n","e","y">>,
        <<"p","a","y","m","e","n","t">> >>,
    responses |-> <<
        <<"w","i","t","h"," ","t","h","e","m","?">>,
        <<" ","p","o","s","i","t","i","o","n","s">> >> ],
  [ category  |-> "library",
    keywords  |-> <<
        <<"l","i","b","r","a","r","y">>,
        <<"h","o","u","r","s">>,
        <<"s","t","u","d","y">>,
        <<"b","o","o","k">>,
        <<"r","e","s","o","u","r","c","e">>,
        <<"r","e","s","e","a","r","c","h">> >>,
    responses |-> <<
        <<" ","a","n","y","w","h","e","r","e","!">>,
        <<"o","l","o","g","y"," ","h","e","l","p">> >> ],
  [ category  |-> "campus_services",
    keywords  |-> <<
        <<"c","a","m","p","u","s">>,
        <<"s","e","r","v","i","c","e">>,
        <<"f","a","c","i","l","i","t","y">>,
        <<"c","e","n","t","e","r">>,
        <<"o","f","f","i","c","e">>,
        <<"h","e","l","p">> >>,
    responses |-> <<
        <<"i","o","n"," ","a","b","o","u","t","?">>,
        <<"a","t","i","o","n"," ","d","e","s","k">> >> ],
  [ category  |-> "student_life",
    keywords  |-> <<
        <<"s","t","u","d","e","n","t"," ","l","i","f","e">>,
        <<"c","l","u","b">>,
        <<"a","c","t","i","v","i","t","y">>,
        <<"e","v","e","n","t">>,
        <<"o","r","g","a","n","i","z","a","t","i","o","n">>,
        <<"s","o","c","i","a","l">> >>,
    responses |-> <<
        <<"u","r"," ","r","e","s","u","m","e","!">>,
        <<"c","h","a","l","l","e","n","g","e","s">> >> ],
  [ category  |-> "technical_support",
    keywords  |-> <<
        <<"t","e","c","h","n","i","c","a","l">>,
        <<"c","o","m","p","u","t","e","r">>,
        <<"s","o","f","t","w","a","r","e">>,
        <<"w","i","f","i">>,
        <<"i","n","t","e","r","n","e","t">>,
        <<"t","e","c","h","n","o","l","o","g","y">>,
        <<"i","t">> >>,
    responses |-> <<
        <<"s","o","l","u","t","i","o","n","s",".">>,
        <<"e"," ","a","r","t","i","c","l","e","s">> >> ],
  [ category  |-> "academic_calendar",
    keywords  |-> <<
        <<"c","a","l","e","n","d","a","r">>,
        <<"d","e","a","d","l","i","n","e">>,
        <<"e","x","a","m">>,
        <<"b","r","e","a","k">>,
        <<"h","o","l","i","d","a","y">>,
        <<"s","c","h","e","d","u","l","e">> >>,
    responses |-> <<
        <<"f","o","r","m","a","t","i","o","n","?">>,
        <<"o","n","v","o","c","a","t","i","o","n">> >> ],
  [ category  |-> "housing",
    keywords  |-> <<
        <<"h","o","u","s","i","n","g">>,
        <<"d","o","r","m">>,
        <<"r","e","s","i","d","e","n","c","e">>,
        <<"r","o","o","m">>,
        <<"a","c","c","o","m","m","o","d","a","t","i","o","n">>,
        <<"l","i","v","i","n","g">>,
        <<"a","p","a","r","t","m","e","n","t">> >>,
    responses |-> <<
        <<"s"," ","o","p","t","i","o","n","s","?">>,
        <<","," ","R","o","o","m"," ","2","0","1">> >> ],
  [ category  |-> "parking",
    keywords  |-> <<
        <<"p","a","r","k","i","n","g">>,
        <<"c","a","r">>,
        <<"v","e","h","i","c","l","e">>,
        <<"t","r","a","n","s","p","o","r","t","a","t","i","o","n">>,
        <<"c","o","m","m","u","t","e">>,
        <<"s","h","u","t","t","l","e">>,
        <<"b","u","s">> >>,
    responses |-> <<
        <<"l","e"," ","r","o","u","t","e","s","?">> >> ]
  >>

default_responses ==
  << <<"f","o","r","m","a","t","i","o","n",".">>,
     <<"e","r","e","n","t"," ","w","a","y","!">>,
     <<"o","r","e"," ","a","b","o","u","t","?">> >>

FollowUp ==
  <<"\n","\n","I","s"," ","t","h","e","r","e"," ","a","n","y","t","h","i","n","g"," ","e","l","s","e"," ","y","o","u","'","d"," ","l","i","k","e"," ","t","o"," ","k","n","o","w","?">>

(***************************************************************************)
(* Bounds of the model.                                                    *)
(***************************************************************************)
\* uuid4() values available: bounds the number of entries ever created
MaxUuid == 2
\* chat requests answered before the history is cleared
MaxChats == 2
\* last value of the clock
MaxNow == 1

Min(a, b) == IF a < b THEN a ELSE b

(***************************************************************************)
(* Tokenizer and scorer.                                                   *)
(***************************************************************************)
_tokenize(text) ==
  SelectSeq(findall_alnum(lower(text)),
            LAMBDA t : truthy(t) /\ t \notin _stopwords)

\* " \n ".join(strs)
RECURSIVE join_sample(_)
join_sample(strs) ==
  IF strs = << >> THEN << >>
  ELSE IF Len(strs) = 1 THEN strs[1]
  ELSE strs[1] \o <<" ", "\n", " ">> \o join_sample(Tail(strs))

\* the scorer without the cap on the keyword tokens
_score_entry_match_uncapped(user_message_lower, user_tokens, entry) ==
  LET keywords == entry.keywords
      keyword_hits ==
        Cardinality({ i \in 1..Len(keywords) :
                        truthy(keywords[i])
                        /\ contains(keywords[i], user_message_lower) })
      keyword_tokens ==
        UNION { Range(_tokenize(keywords[i])) : i \in 1..Len(keywords) }
      title_tokens == Range(_tokenize(entry.title))
      sample == join_sample(SubSeq(entry.responses, 1,
                                   Min(2, Len(entry.responses))))
      resp_tokens == Range(_tokenize(sample))
  IN  keyword_hits * 3
        + Cardinality(user_tokens \cap keyword_tokens)
        + Min(Cardinality(user_tokens \cap title_tokens), 2)
        + Min(Cardinality(user_tokens \cap resp_tokens), 5)

\* the scorer with a weight of 2 on the keywords found in the message
_score_entry_match_weight_2(user_message_lower, user_tokens, entry) ==
  LET keywords == entry.keywords
      keyword_hits ==
        Cardinality({ i \in 1..Len(keywords) :
                        truthy(keywords[i])
                        /\ contains(keywords[i], user_message_lower) })
      keyword_tokens ==
        UNION { Range(_tokenize(keywords[i])) : i \in 1..Len(keywords) }
      title_tokens == Range(_tokenize(entry.title))
      sample == join_sample(SubSeq(entry.responses, 1,
                                   Min(2, Len(entry.responses))))
      resp_tokens == Range(_tokenize(sample))
  IN  keyword_hits * 2
        + Min(Cardinality(user_tokens \cap keyword_tokens), 4)
        + Min(Cardinality(user_tokens \cap title_tokens), 2)
        + Min(Cardinality(user_tokens \cap resp_tokens), 5)

_score_entry_match(user_message_lower, user_tokens, entry) ==
  LET keywords == entry.keywords
      keyword_hits ==
        Cardinality({ i \in 1..Len(keywords) :
                        truthy(keywords[i])
                        /\ contains(keywords[i], user_message_lower) })
      keyword_tokens ==
        UNION { Range(_tokenize(keywords[i])) : i \in 1..Len(keywords) }
      title_tokens == Range(_tokenize(entry.title))
      sample == join_sample(SubSeq(entry.responses, 1,
                                   Min(2, Len(entry.responses))))
      resp_tokens == Range(_tokenize(sample))
  IN  keyword_hits * 3
        + Min(Cardinality(user_tokens \cap keyword_tokens), 4)
        + Min(Cardinality(user_tokens \cap title_tokens), 2)
        + Min(Cardinality(user_tokens \cap resp_tokens), 5)

\* built-in tier: sum(1 for keyword in data['keywords'] if keyword in msg)
builtin_score(user_message_lower, data) ==
  Cardinality({ i \in 1..Len(data.keywords) :
                  contains(data.keywords[i], user_message_lower) })

(***************************************************************************)
(* Ranker: the loop  best = None; best_score = 0;                          *)
(*                   for x in tier: if score > best_score: ...             *)
(* over the scores of a tier in iteration order.  The result is the index  *)
(* of the winner, 0 for None.                                              *)
(***************************************************************************)
better_or_equal(score, best_score) == score >= best_score

better(score, best_score) == score > best_score

RECURSIVE rank_from(_, _, _, _)
rank_from(scores, i, best, best_score) ==
  IF i > Len(scores) THEN best
  ELSE IF better(scores[i], best_score)
    THEN rank_from(scores, i + 1, i, scores[i])
    ELSE rank_from(scores, i + 1, best, best_score)

rank(scores) == rank_from(scores, 1, 0, 0)

admin_scores(entries, user_message) ==
  [ i \in 1..Len(entries) |->
      _score_entry_match(lower(user_message),
                         Range(_tokenize(user_message)), entries[i]) ]

builtin_scores(user_message) ==
  [ i \in 1..Len(knowledge_base) |->
      builtin_score(lower(user_message), knowledge_base[i]) ]

\* the admin tier answers only when it outscores the built-in tier
admin_matches_if_higher(entries, user_message) ==
  LET scores == admin_scores(entries, user_message)
      bscores == builtin_scores(user_message)
      best_admin == rank(scores)
  IN  /\ best_admin /= 0
      /\ scores[best_admin] > 0
      /\ \A i \in 1..Len(bscores) : scores[best_admin] >= bscores[i]
      /\ truthy(entries[best_admin].responses)

\* best_admin and best_admin_score > 0 and best_admin.get('responses')
admin_matches(entries, user_message) ==
  LET scores == admin_scores(entries, user_message)
      best_admin == rank(scores)
  IN  /\ best_admin /= 0
      /\ scores[best_admin] > 0
      /\ truthy(entries[best_admin].responses)

\* the follow-up suffix is never appended
admin_personalize_never(user_message, response) == response

\* if '?' in user_message and response and not response.strip().endswith('?')
admin_personalize(user_message, response) ==
  IF contains(<<"?">>, user_message) /\ truthy(response)
       /\ ~ endswith(strip(response), <<"?">>)
    THEN response \o FollowUp
    ELSE response

\* the follow-up suffix is appended whatever the query
builtin_personalize_always(user_message, response) == response \o FollowUp

\* if '?' in user_message: response += ...
builtin_personalize(user_message, response) ==
  IF contains(<<"?">>, user_message)
    THEN response \o FollowUp
    ELSE response

\* random.choice(default_responses)
_get_default_response(user_message) == Range(default_responses)

\* conversation_history.append({'user': ..., 'timestamp': ...})
UserTurn(text, t) == [ role |-> "user", text |-> text, timestamp |-> t ]

\* the bot turn stored under the 'user' key
BotTurn_as_user(text, t) == [ role |-> "user", text |-> text, timestamp |-> t ]

\* conversation_history.append({'bot': ..., 'timestamp': ...})
BotTurn(text, t) == [ role |-> "bot", text |-> text, timestamp |-> t ]

(***************************************************************************)
(* CollegeAI.get_response: the results random.choice can produce.  A       *)
(* result holds the reply (text), the turns appended to the conversation   *)
(* history, the branch that answered and the response string that          *)
(* random.choice returned (chosen).  t is the clock.                       *)
(***************************************************************************)
get_response(entries, user_message, t) ==
  LET best_admin == rank(admin_scores(entries, user_message))
      bscores == builtin_scores(user_message)
      best_match == rank(bscores)
      result(branch, chosen, response) ==
        [ text   |-> response,
          branch |-> branch,
          chosen |-> chosen,
          turns  |-> << UserTurn(user_message, t), BotTurn(response, t) >> ]
  IN  IF admin_matches(entries, user_message)
        THEN { result("admin", r, admin_personalize(user_message, r)) :
               r \in Range(entries[best_admin].responses) }
      ELSE IF best_match /= 0 /\ bscores[best_match] > 0
        THEN { result("builtin", r, builtin_personalize(user_message, r)) :
               r \in Range(knowledge_base[best_match].responses) }
      ELSE { result("default", r, r) : r \in _get_default_response(user_message) }

\* best_admin starts at the first entry and its score is not tested
meta_first_entry_by_default(entries, user_message, t) ==
  LET scores == admin_scores(entries, user_message)
      best_admin == IF rank(scores) /= 0 THEN rank(scores)
                    ELSE IF entries /= << >> THEN 1 ELSE 0
  IN  IF best_admin /= 0 /\ truthy(entries[best_admin].responses)
        THEN { [ text   |-> admin_personalize(user_message, r),
                 branch |-> "admin",
                 chosen |-> r,
                 turns  |-> << UserTurn(user_message, t),
                               BotTurn(admin_personalize(user_message, r), t) >>,
                 source |-> Some([ type       |-> "admin",
                                   id         |-> entries[best_admin].id,
                                   title      |-> entries[best_admin].title,
                                   source_pdf |-> entries[best_admin].source_pdf ]) ] :
               r \in Range(entries[best_admin].responses) }
        ELSE { [ text |-> res.text, branch |-> res.branch, chosen |-> res.chosen,
                 turns |-> res.turns, source |-> None ] :
               res \in get_response(entries, user_message, t) }

\* random.choice replaced by the first response
meta_first_response(entries, user_message, t) ==
  LET best_admin == rank(admin_scores(entries, user_message))
  IN  IF admin_matches(entries, user_message)
        THEN { [ text   |-> admin_personalize(user_message, r),
                 branch |-> "admin",
                 chosen |-> r,
                 turns  |-> << UserTurn(user_message, t),
                               BotTurn(admin_personalize(user_message, r), t) >>,
                 source |-> Some([ type       |-> "admin",
                                   id         |-> entries[best_admin].id,
                                   title      |-> entries[best_admin].title,
                                   source_pdf |-> entries[best_admin].source_pdf ]) ] :
               r \in { entries[best_admin].responses[1] } }
        ELSE { [ text |-> res.text, branch |-> res.branch, chosen |-> res.chosen,
                 turns |-> res.turns, source |-> None ] :
               res \in get_response(entries, user_message, t) }

(***************************************************************************)
(* CollegeAI.get_response_with_meta: the possible results.  source is None *)
(* or the metadata of the admin entry that answered.                       *)
(***************************************************************************)
get_response_with_meta(entries, user_message, t) ==
  LET best_admin == rank(admin_scores(entries, user_message))
  IN  IF admin_matches(entries, user_message)
        THEN { [ text   |-> admin_personalize(user_message, r),
                 branch |-> "admin",
                 chosen |-> r,
                 turns  |-> << UserTurn(user_message, t),
                               BotTurn(admin_personalize(user_message, r), t) >>,
                 source |-> Some([ type       |-> "admin",
                                   id         |-> entries[best_admin].id,
                                   title      |-> entries[best_admin].title,
                                   source_pdf |-> entries[best_admin].source_pdf ]) ] :
               r \in Range(entries[best_admin].responses) }
        ELSE { [ text |-> res.text, branch |-> res.branch, chosen |-> res.chosen,
                 turns |-> res.turns, source |-> None ] :
               res \in get_response(entries, user_message, t) }

(***************************************************************************)
(* Requests.                                                               *)
(***************************************************************************)
Messages ==
  { <<"b","u","s"," ","f","e","e">>,
    <<"b","u","s","?">>,
    <<"z","z","z">>,
    <<"z","z","z","?">>,
    <<" ","L","i","b","r","a","r","y"," ","h","o","u","r","s","?"," ">>,
    <<" "," ">> }

\* request.get_json(): None (no 'message' key) or the message
ChatData == { None } \cup { Some(m) : m \in Messages }

\* the record of a request and of the answer it got; text, source, branch
\* and chosen describe a chat reply, total is /api/stats' count (or the
\* score, when the scorer alone is run), write tells
\* whether write_json_file was called and how it ended, error is the message
\* of an error answer of the ingestion handler
Answer(op, req, status) ==
  [ op |-> op, req |-> req, status |-> status,
    text |-> None, source |-> None, branch |-> "none", chosen |-> None,
    write |-> "none", total |-> 0, error |-> None ]

\* jsonify({'error': message}), status
Failure(op, req, status, message) ==
  [ Answer(op, req, status) EXCEPT !.error = Some(message) ]

(***************************************************************************)
(* POST /api/chat                                                          *)
(***************************************************************************)
chat(data) ==
  IF data = None \/ ~ truthy(strip(data[1]))
    THEN /\ last' = Answer("chat", data, 400)
         /\ UNCHANGED << admin_knowledge, knowledge_file, locations_store,
                         locations_file, uploads, conversation_history,
                         next_uuid, now, inflight >>
    ELSE LET user_message == strip(data[1]) IN
         /\ Len(conversation_history) < 2 * MaxChats
         /\ \E result \in get_response_with_meta(admin_knowledge, user_message, now) :
              /\ conversation_history' = conversation_history \o result.turns
              /\ last' = [ Answer("chat", data, 200) EXCEPT
                             !.text = Some(result.text),
                             !.source = result.source,
                             !.branch = result.branch,
                             !.chosen = Some(result.chosen) ]
         /\ UNCHANGED << admin_knowledge, knowledge_file, locations_store,
                         locations_file, uploads, next_uuid, now, inflight >>

(***************************************************************************)
(* GET /api/stats and POST /api/clear-history                              *)
(***************************************************************************)
total_conversations == Len(conversation_history) \div 2

get_stats ==
  /\ last' = [ Answer("get_stats", None, 200) EXCEPT
                 !.total = total_conversations ]
  /\ UNCHANGED << admin_knowledge, knowledge_file, locations_store,
                  locations_file, uploads, conversation_history,
                  next_uuid, now, inflight >>

clear_history ==
  /\ conversation_history' = << >>
  /\ last' = Answer("clear_history", None, 200)
  /\ UNCHANGED << admin_knowledge, knowledge_file, locations_store,
                  locations_file, uploads, next_uuid, now, inflight >>

\* time passes between two requests
Tick ==
  /\ now < MaxNow
  /\ now' = now + 1
  /\ UNCHANGED << admin_knowledge, knowledge_file, locations_store,
                  locations_file, uploads, conversation_history,
                  next_uuid, last, inflight >>

(***************************************************************************)
(* Admin authentication.  A request carries an optional X-Admin-Token      *)
(* header and an optional admin_token query argument.                      *)
(***************************************************************************)
ADMIN_TOKEN == "changeme"

\* x or y, for optional strings (None and '' are falsy)
or_else(x, y) == IF x /= None /\ x[1] /= "" THEN x ELSE y

\* any token is accepted
_require_any_token(req) == or_else(req.header, req.arg) /= None

_require_admin(req) ==
  LET token == or_else(req.header, req.arg)
  IN  token = Some(ADMIN_TOKEN)

\* the token in the header, in the query, a wrong header, no token
Auths ==
  { [ header |-> Some("changeme"), arg |-> None ],
    [ header |-> Some(""),         arg |-> Some("changeme") ],
    [ header |-> Some("wrong"),    arg |-> Some("changeme") ],
    [ header |-> None,             arg |-> None ] }

(***************************************************************************)
(* Persistence.  A file is None while it does not exist, else the list it  *)
(* holds.  write_json_file either replaces the target by the new document  *)
(* and returns True, or fails before os.replace, leaves the target as it   *)
(* was and returns False; which of the two is a choice of the environment  *)
(* (disk full, permissions).                                               *)
(***************************************************************************)
WriteOutcomes == { TRUE, FALSE }

write_json_file(old, data, ok) == IF ok THEN Some(data) ELSE old

\* read_json_file(path, default).get(key, [])
read_json_file(file) == IF file = None THEN << >> ELSE file[1]

\* str(uuid.uuid4()): the next unused identifier
uuid4 == next_uuid + 1

(***************************************************************************)
(* JSON bodies of the knowledge requests.  A field is None when the key is *)
(* missing; a present keywords/responses value is a list of strings        *)
(* (list = TRUE) or a bare string (list = FALSE).                          *)
(***************************************************************************)
List(v) == Some([ list |-> TRUE, val |-> v ])
Bare(v) == Some([ list |-> FALSE, val |-> v ])

\* body.get(key) is a list
any_list(field) == field /= None /\ field[1].list

\* body.get(key) is a non-empty list
nonempty_list(field) == field /= None /\ field[1].list /\ truthy(field[1].val)

lower_all(strs) == [ i \in 1..Len(strs) |-> lower(strs[i]) ]

\* scores 1 on "library hours?" through its title only
HoursBody ==
  [ title |-> Some(<<"H","o","u","r","s">>),
    keywords |-> List(<< <<"W","i","f","i">> >>),
    responses |-> List(<< <<"A","s","k","?">>, <<"O","p","e","n">> >>),
    response |-> None ]

\* singular 'response' key with an empty text, default title
BusBody ==
  [ title |-> None,
    keywords |-> List(<< <<"b","u","s">> >>),
    responses |-> None,
    response |-> Some(<< >>) ]

\* keywords missing, keywords not a list, responses empty, responses missing
InvalidBodies ==
  { [ title |-> None, keywords |-> None,
      responses |-> List(<< <<"O","p","e","n">> >>), response |-> None ],
    [ title |-> None, keywords |-> Bare(<<"b","u","s">>),
      responses |-> List(<< <<"O","p","e","n">> >>), response |-> None ],
    [ title |-> None, keywords |-> List(<< <<"b","u","s">> >>),
      responses |-> List(<< >>), response |-> Some(<<"O","p","e","n">>) ],
    [ title |-> None, keywords |-> List(<< <<"b","u","s">> >>),
      responses |-> None, response |-> None ] }

\* title and responses replaced; the empty keywords list is ignored
UpdateBodies ==
  { [ title |-> Some(<<"B","u","s">>), keywords |-> List(<< >>),
      responses |-> List(<< <<"f","e","e","?">> >>) ] }

EntryIds == 1..(MaxUuid + 1)

(***************************************************************************)
(* POST /api/knowledge                                                     *)
(***************************************************************************)
add_knowledge(auth, body) ==
  LET req == [ auth |-> auth, body |-> body ]
      title == IF body.title /= None /\ truthy(body.title[1])
                 THEN body.title[1] ELSE <<"C","u","s","t","o","m">>
      responses == IF body.responses = None /\ body.response /= None
                     THEN List(<< body.response[1] >>)
                     ELSE body.responses
      entry == [ id         |-> uuid4,
                 title      |-> title,
                 keywords   |-> lower_all(body.keywords[1].val),
                 responses  |-> responses[1].val,
                 created_at |-> now,
                 source_pdf |-> None ]
      entries == Append(admin_knowledge, entry)
      unchanged == UNCHANGED << admin_knowledge, knowledge_file, next_uuid >>
  IN
  /\ UNCHANGED << locations_store, locations_file, uploads,
                  conversation_history, now, inflight >>
  /\ IF ~ _require_admin(auth)
       THEN last' = Answer("add_knowledge", req, 401) /\ unchanged
     ELSE IF ~ nonempty_list(body.keywords)
       THEN last' = Answer("add_knowledge", req, 400) /\ unchanged
     ELSE IF ~ nonempty_list(responses)
       THEN last' = Answer("add_knowledge", req, 400) /\ unchanged
     ELSE
       /\ next_uuid < MaxUuid
       /\ next_uuid' = next_uuid + 1
       /\ \E ok \in WriteOutcomes :
            /\ knowledge_file' = write_json_file(knowledge_file, entries, ok)
            /\ IF ~ ok
                 THEN /\ last' = [ Answer("add_knowledge", req, 500)
                                     EXCEPT !.write = "failed" ]
                      /\ UNCHANGED admin_knowledge
                 ELSE /\ admin_knowledge' = entries
                      /\ last' = [ Answer("add_knowledge", req, 200)
                                     EXCEPT !.write = "ok" ]

(***************************************************************************)
(* PUT /api/knowledge/<entry_id>.  entries is a shallow copy of the list:  *)
(* found is the very dict the in-memory tier holds, so the assignments to  *)
(* found[...] are visible through ai_assistant.admin_knowledge at once,    *)
(* before and whatever the outcome of the save.                            *)
(***************************************************************************)
find_id(entries, id) ==
  IF \E i \in 1..Len(entries) : entries[i].id = id
    THEN CHOOSE i \in 1..Len(entries) :
           /\ entries[i].id = id
           /\ \A j \in 1..(i - 1) : entries[j].id /= id
    ELSE 0

\* found.update(body) over the keys an entry has
updated_entry_from_body(found, body) ==
  [ found EXCEPT
      !.id = IF body.id /= None THEN body.id[1] ELSE @,
      !.title = IF body.title /= None THEN body.title[1] ELSE @,
      !.keywords = IF nonempty_list(body.keywords)
                     THEN lower_all(body.keywords[1].val) ELSE @,
      !.responses = IF nonempty_list(body.responses)
                      THEN body.responses[1].val ELSE @ ]

\* keywords and responses replaced by any list, the empty one included
updated_entry_any_list(found, body) ==
  [ found EXCEPT
      !.title = IF body.title /= None THEN body.title[1] ELSE @,
      !.keywords = IF any_list(body.keywords)
                     THEN lower_all(body.keywords[1].val) ELSE @,
      !.responses = IF any_list(body.responses)
                      THEN body.responses[1].val ELSE @ ]

updated_entry(found, body) ==
  [ found EXCEPT
      !.title = IF body.title /= None THEN body.title[1] ELSE @,
      !.keywords = IF nonempty_list(body.keywords)
                     THEN lower_all(body.keywords[1].val) ELSE @,
      !.responses = IF nonempty_list(body.responses)
                      THEN body.responses[1].val ELSE @ ]

\* the updated entry moved to the end of the list
update_at_end(tier, i, body) ==
  SubSeq(tier, 1, i - 1) \o SubSeq(tier, i + 1, Len(tier))
    \o << updated_entry(tier[i], body) >>

\* the list ai_assistant.admin_knowledge denotes once found was assigned to
update_in_place(tier, i, body) ==
  [ tier EXCEPT ![i] = updated_entry(tier[i], body) ]

update_knowledge(auth, entry_id, body) ==
  LET req == [ auth |-> auth, id |-> entry_id, body |-> body ]
      found == find_id(admin_knowledge, entry_id)
      entries == update_in_place(admin_knowledge, found, body)
  IN
  /\ UNCHANGED << locations_store, locations_file, uploads,
                  conversation_history, next_uuid, now, inflight >>
  /\ IF ~ _require_admin(auth)
       THEN /\ last' = Answer("update_knowledge", req, 401)
            /\ UNCHANGED << admin_knowledge, knowledge_file >>
     ELSE IF found = 0
       THEN /\ last' = Answer("update_knowledge", req, 404)
            /\ UNCHANGED << admin_knowledge, knowledge_file >>
     ELSE
       /\ admin_knowledge' = entries
       /\ \E ok \in WriteOutcomes :
            /\ knowledge_file' = write_json_file(knowledge_file, entries, ok)
            /\ last' = IF ok
                 THEN [ Answer("update_knowledge", req, 200)
                          EXCEPT !.write = "ok" ]
                 ELSE [ Answer("update_knowledge", req, 500)
                          EXCEPT !.write = "failed" ]

(***************************************************************************)
(* DELETE /api/knowledge/<entry_id>                                        *)
(***************************************************************************)
\* == for !=: the entries with the given id are the ones kept
only_id(tier, id) == SelectSeq(tier, LAMBDA e : e.id = id)

\* [e for e in tier if e.get('id') != entry_id]
without_id(tier, id) == SelectSeq(tier, LAMBDA e : e.id /= id)

delete_knowledge(auth, entry_id) ==
  LET req == [ auth |-> auth, id |-> entry_id ]
      entries == without_id(admin_knowledge, entry_id)
  IN
  /\ UNCHANGED << locations_store, locations_file, uploads,
                  conversation_history, next_uuid, now, inflight >>
  /\ IF ~ _require_admin(auth)
       THEN /\ last' = Answer("delete_knowledge", req, 401)
            /\ UNCHANGED << admin_knowledge, knowledge_file >>
     ELSE IF Len(entries) = Len(admin_knowledge)
       THEN /\ last' = Answer("delete_knowledge", req, 404)
            /\ UNCHANGED << admin_knowledge, knowledge_file >>
     ELSE
       \E ok \in WriteOutcomes :
         /\ knowledge_file' = write_json_file(knowledge_file, entries, ok)
         /\ IF ok
              THEN /\ admin_knowledge' = entries
                   /\ last' = [ Answer("delete_knowledge", req, 200)
                                  EXCEPT !.write = "ok" ]
              ELSE /\ UNCHANGED admin_knowledge
                   /\ last' = [ Answer("delete_knowledge", req, 500)
                                  EXCEPT !.write = "failed" ]

(***************************************************************************)
(* POST /api/knowledge/pdf: helpers.                                       *)
(***************************************************************************)
ChunkSize == 800
MaxSegments == 10
MaxKeywords == 25
MaxTitleTokens == 5
MaxFrequent == 10

NUL == "NUL"

\* s[a:b] with 0-based a, b as in Python
slice(s, a, b) == SubSeq(s, a + 1, Min(b, Len(s)))

\* re.split(r"\n\s*\n", text): a separator starts at the first newline that
\* is followed, after white space only, by another newline, and extends to
\* the last such newline; the search resumes after it.
RECURSIVE re_split_blank(_)
re_split_blank(s) ==
  LET closes(i, j) == /\ s[j] = "\n"
                      /\ \A k \in (i + 1)..(j - 1) : s[k] \in Whitespace
      starts == { i \in 1..Len(s) :
                    s[i] = "\n" /\ \E j \in (i + 1)..Len(s) : closes(i, j) }
  IN  IF starts = {} THEN << s >>
      ELSE
        LET i == CHOOSE i \in starts : \A k \in starts : i <= k
            ends == { j \in (i + 1)..Len(s) : closes(i, j) }
            j == CHOOSE j \in ends : \A k \in ends : k <= j
        IN  << SubSeq(s, 1, i - 1) >> \o re_split_blank(SubSeq(s, j + 1, Len(s)))

\* the while loop of chunk_text over one paragraph
RECURSIVE slices(_, _, _)
slices(para, start, size) ==
  IF start < Len(para)
    THEN << slice(para, start, start + size) >> \o slices(para, start + size, size)
    ELSE << >>

RECURSIVE concat_all(_)
concat_all(seqs) ==
  IF seqs = << >> THEN << >> ELSE Head(seqs) \o concat_all(Tail(seqs))

\* chunk_text without the while loop: a paragraph is one segment
chunk_text_whole(text, size) ==
  LET pieces == re_split_blank(text)
      stripped == [ i \in 1..Len(pieces) |-> strip(pieces[i]) ]
  IN  SelectSeq(stripped, truthy)

\* chunk_text without p.strip(): the pieces of the split are the paragraphs
chunk_text_unstripped(text, size) ==
  LET paragraphs == re_split_blank(text)
      segments == concat_all([ i \in 1..Len(paragraphs) |->
                                 slices(paragraphs[i], 0, size) ])
  IN  SelectSeq(segments, truthy)

chunk_text(text, size) ==
  LET pieces == re_split_blank(text)
      stripped == [ i \in 1..Len(pieces) |-> strip(pieces[i]) ]
      paragraphs == SelectSeq(stripped, truthy)
      segments == concat_all([ i \in 1..Len(paragraphs) |->
                                 slices(paragraphs[i], 0, size) ])
  IN  SelectSeq(segments, truthy)

\* '\n\n'.join(page_texts), page_texts being the non-empty page texts
RECURSIVE join_pages(_)
join_pages(pages) ==
  IF pages = << >> THEN << >>
  ELSE IF Len(pages) = 1 THEN pages[1]
  ELSE pages[1] \o <<"\n", "\n">> \o join_pages(Tail(pages))

\* re.sub(r"\u0000", "", text)
strip_nul(text) == SelectSeq(text, LAMBDA c : c /= NUL)

\* raw.split(','): the parts between the commas, one more than the commas
split_comma(s) ==
  LET commas == { i \in 1..Len(s) : s[i] = "," }
      cut(n) == IF n = 0 THEN 0
                ELSE IF n > Cardinality(commas) THEN Len(s) + 1
                ELSE CHOOSE i \in commas :
                       Cardinality({ j \in commas : j < i }) = n - 1
  IN  [ n \in 1..(Cardinality(commas) + 1) |->
          SubSeq(s, cut(n - 1) + 1, cut(n) - 1) ]

\* [k.strip().lower() for k in raw_keywords.split(',') if k.strip()]
form_keywords(raw_keywords) ==
  LET parts == split_comma(raw_keywords)
      kept == SelectSeq(parts, LAMBDA k : truthy(strip(k)))
  IN  [ i \in 1..Len(kept) |-> lower(strip(kept[i])) ]

\* the local tokenize of upload_pdf_knowledge: no stopword filter
pdf_tokenize(text) == SelectSeq(findall_alnum(lower(text)), truthy)

\* frequent[:10]: freq keeps first-occurrence order and sorted() is stable,
\* so a token precedes another when it is more frequent, or as frequent and
\* met earlier.
frequent_tokens(text) ==
  LET toks == SelectSeq(pdf_tokenize(text),
                        LAMBDA t : Len(t) > 2 /\ t \notin _stopwords)
      count(t) == Cardinality({ i \in 1..Len(toks) : toks[i] = t })
      first(t) == CHOOSE i \in 1..Len(toks) :
                    toks[i] = t /\ \A j \in 1..(i - 1) : toks[j] /= t
      before(u, t) == \/ count(u) > count(t)
                      \/ count(u) = count(t) /\ first(u) < first(t)
  IN  { t \in Range(toks) :
          Cardinality({ u \in Range(toks) : before(u, t) }) < MaxFrequent }

\* list(base_tokens): the elements of a set in an order the hash decides
orderings(S) ==
  { f \in [ 1..Cardinality(S) -> S ] :
      \A i, j \in 1..Cardinality(S) : i /= j => f[i] /= f[j] }

\* the elements of S in the order of their first occurrence in seq
in_order_of(S, seq) ==
  LET first(t) == CHOOSE i \in 1..Len(seq) :
                    seq[i] = t /\ \A j \in 1..(i - 1) : seq[j] /= t
      nth(n) == CHOOSE t \in S :
                  Cardinality({ u \in S : first(u) < first(t) }) = n - 1
  IN  [ n \in 1..Cardinality(S) |-> nth(n) ]

rotations(seq) ==
  { [ i \in 1..Len(seq) |-> seq[((i + r - 1) % Len(seq)) + 1] ] :
      r \in 0..(Len(seq) - 1) }

\* the orders considered for list(base_tokens): every order of a set of at
\* most MaxPermuted elements, and for a larger set the rotations of the
\* order in which its elements were met
MaxPermuted == 3

list_of_set(S, seq) ==
  IF Cardinality(S) <= MaxPermuted
    THEN orderings(S)
    ELSE rotations(in_order_of(S, seq))

\* the keywords without the slice [:25]
derived_keywords_unbounded(form_kw, title, text) ==
  LET kws == form_keywords(form_kw)
      title_tokens == SelectSeq(pdf_tokenize(title), LAMBDA t : Len(t) > 2)
      base_tokens == Range(kws)
                       \cup Range(slice(title_tokens, 0, MaxTitleTokens))
                       \cup frequent_tokens(text)
      met == kws \o title_tokens \o pdf_tokenize(text)
  IN  { SelectSeq(o, truthy) : o \in list_of_set(base_tokens, met) }

derived_keywords(form_kw, title, text) ==
  LET kws == form_keywords(form_kw)
      title_tokens == SelectSeq(pdf_tokenize(title), LAMBDA t : Len(t) > 2)
      base_tokens == Range(kws)
                       \cup Range(slice(title_tokens, 0, MaxTitleTokens))
                       \cup frequent_tokens(text)
      met == kws \o title_tokens \o pdf_tokenize(text)
  IN  { slice(SelectSeq(o, truthy), 0, MaxKeywords) :
          o \in list_of_set(base_tokens, met) }

\* werkzeug.utils.secure_filename on an ASCII name: path separators become
\* spaces, runs of whitespace become "_", characters outside
\* [A-Za-z0-9_.-] are dropped, leading and trailing "." and "_" are stripped.
RECURSIVE join_underscore(_)
join_underscore(words) ==
  IF words = << >> THEN << >>
  ELSE IF Len(words) = 1 THEN words[1]
  ELSE words[1] \o <<"_">> \o join_underscore(Tail(words))

\* str.split(): the maximal runs of non-whitespace characters
RECURSIVE split_ws(_, _)
split_ws(s, cur) ==
  IF s = << >> THEN (IF cur = << >> THEN << >> ELSE << cur >>)
  ELSE IF Head(s) \in Whitespace
    THEN (IF cur = << >> THEN << >> ELSE << cur >>) \o split_ws(Tail(s), << >>)
    ELSE split_ws(Tail(s), Append(cur, Head(s)))

RECURSIVE strip_chars(_, _)
strip_chars(s, chars) ==
  IF s /= << >> /\ Head(s) \in chars THEN strip_chars(Tail(s), chars)
  ELSE IF s /= << >> /\ s[Len(s)] \in chars
    THEN strip_chars(SubSeq(s, 1, Len(s) - 1), chars)
    ELSE s

secure_filename(name) ==
  LET nosep == [ i \in 1..Len(name) |-> IF name[i] = "/" THEN " " ELSE name[i] ]
      joined == join_underscore(split_ws(nosep, << >>))
      kept == SelectSeq(joined, LAMBDA c : IsAlnum(c) \/ c \in {"_", ".", "-"})
  IN  strip_chars(kept, {".", "_"})

\* os.path.splitext(filename)[0]: up to the last dot, unless that dot is
\* only preceded by dots
splitext_root(filename) ==
  LET dots == { i \in 1..Len(filename) : filename[i] = "." }
      lastdot == CHOOSE i \in dots : \A k \in dots : k <= i
  IN  IF dots = {} \/ \A k \in 1..(lastdot - 1) : filename[k] = "."
        THEN filename
        ELSE SubSeq(filename, 1, lastdot - 1)

(***************************************************************************)
(* POST /api/knowledge/pdf.  An upload is None (no 'file' part) or a file  *)
(* name with what PdfReader makes of the content: None when it raises,     *)
(* else the texts of the pages.  The form carries optional title and       *)
(* keywords fields.  An error answer is recorded with the first words of   *)
(* its message.                                                            *)
(***************************************************************************)
PdfSuffix == <<".", "p", "d", "f">>

NoForm == [ title |-> None, keywords |-> None ]

\* two pages, the second without text
MapPdf ==
  Some([ filename |-> <<"m"," ","p",".","P","D","F">>,
         pages |-> Some(<< <<"B","u","s",".","\n"," ","\n","G","o">>, << >> >>) ])

UploadRequests ==
  { [ file |-> None, form |-> NoForm ],
    [ file |-> Some([ filename |-> << >>, pages |-> None ]), form |-> NoForm ],
    [ file |-> Some([ filename |-> <<"a",".","t","x","t">>, pages |-> None ]),
      form |-> NoForm ],
    [ file |-> MapPdf, form |-> NoForm ],
    \* a scanned document: white space only
    [ file |-> Some([ filename |-> <<"m"," ","p",".","P","D","F">>,
                      pages |-> Some(<< <<" ", "\n">> >>) ]),
      form |-> NoForm ],
    \* PdfReader raises
    [ file |-> Some([ filename |-> <<"m"," ","p",".","P","D","F">>,
                      pages |-> None ]),
      form |-> NoForm ] }

upload_pdf_knowledge(auth, file, form) ==
  LET req == [ auth |-> auth, file |-> file, form |-> form ]
      filename == secure_filename(file[1].filename)
      page_texts == SelectSeq(file[1].pages[1], truthy)
      extracted_text == strip_nul(join_pages(page_texts))
      responses == slice(chunk_text(extracted_text, ChunkSize), 0, MaxSegments)
      title == IF form.title /= None /\ truthy(form.title[1])
                 THEN form.title[1] ELSE splitext_root(filename)
      raw_keywords == IF form.keywords /= None THEN form.keywords[1] ELSE << >>
      keyword_lists == derived_keywords(raw_keywords, title, extracted_text)
      nochange == UNCHANGED << admin_knowledge, knowledge_file, next_uuid >>
  IN
  /\ UNCHANGED << locations_store, locations_file, conversation_history,
                  now, inflight >>
  /\ IF ~ _require_admin(auth)
       THEN last' = Failure("upload_pdf_knowledge", req, 401, "Unauthorized")
            /\ nochange /\ UNCHANGED uploads
     ELSE IF file = None
       THEN last' = Failure("upload_pdf_knowledge", req, 400, "No file uploaded")
            /\ nochange /\ UNCHANGED uploads
     ELSE IF file[1].filename = << >>
       THEN last' = Failure("upload_pdf_knowledge", req, 400, "Empty file")
            /\ nochange /\ UNCHANGED uploads
     ELSE IF ~ endswith(lower(file[1].filename), PdfSuffix)
       THEN last' = Failure("upload_pdf_knowledge", req, 400,
                            "Only PDF files are supported")
            /\ nochange /\ UNCHANGED uploads
     ELSE
       \* file.save(save_path)
       /\ uploads' = uploads \cup { filename }
       /\ IF file[1].pages = None
            THEN last' = Failure("upload_pdf_knowledge", req, 500,
                                 "Failed to extract PDF text")
                 /\ nochange
          ELSE IF ~ truthy(responses)
            THEN last' = Failure("upload_pdf_knowledge", req, 400,
                                 "No selectable text found in PDF")
                 /\ nochange
          ELSE
            \E keywords \in keyword_lists :
              IF ~ truthy(keywords)
                THEN last' = Failure("upload_pdf_knowledge", req, 400,
                                     "keywords is required")
                     /\ nochange
                ELSE
                  LET entry == [ id         |-> uuid4,
                                 title      |-> title,
                                 keywords   |-> keywords,
                                 responses  |-> responses,
                                 created_at |-> now,
                                 source_pdf |-> Some(filename) ]
                      entries == Append(admin_knowledge, entry)
                  IN
                  /\ next_uuid < MaxUuid
                  /\ next_uuid' = next_uuid + 1
                  /\ \E ok \in WriteOutcomes :
                       /\ knowledge_file' =
                            write_json_file(knowledge_file, entries, ok)
                       /\ IF ok
                            THEN /\ admin_knowledge' = entries
                                 /\ last' = [ Answer("upload_pdf_knowledge", req, 200)
                                                EXCEPT !.write = "ok" ]
                            ELSE /\ UNCHANGED admin_knowledge
                                 /\ last' = [ Failure("upload_pdf_knowledge", req,
                                                      500, "Failed to save entry")
                                                EXCEPT !.write = "failed" ]

(***************************************************************************)
(* Locations API.  A body field is None when the key is missing.  latitude *)
(* and longitude are numbers, or strings float() rejects.                  *)
(***************************************************************************)
Num(n) == Some([ num |-> TRUE, val |-> n ])
NotNum == Some([ num |-> FALSE, val |-> 0 ])

\* to_float_or_none(v)
to_float_or_none(v) == IF v /= None /\ v[1].num THEN Some(v[1].val) ELSE None

str_or(field, default) ==
  IF field /= None /\ truthy(field[1]) THEN field[1] ELSE default

LocationBodies ==
  { [ name |-> Some(<<" ","G","a","t","e"," ">>), category |-> None,
      description |-> None, maps_query |-> None,
      latitude |-> Num(12), longitude |-> NotNum ],
    [ name |-> Some(<<" ">>), category |-> Some(<<"L","a","b">>),
      description |-> None, maps_query |-> None,
      latitude |-> None, longitude |-> None ],
    [ name |-> None, category |-> None,
      description |-> None, maps_query |-> None,
      latitude |-> None, longitude |-> None ] }

add_location(auth, body) ==
  LET req == [ auth |-> auth, body |-> body ]
      name == strip(str_or(body.name, << >>))
      entry == [ id          |-> uuid4,
                 name        |-> name,
                 category    |-> str_or(body.category, <<"G","e","n","e","r","a","l">>),
                 description |-> str_or(body.description, << >>),
                 maps_query  |-> str_or(body.maps_query, << >>),
                 latitude    |-> to_float_or_none(body.latitude),
                 longitude   |-> to_float_or_none(body.longitude),
                 created_at  |-> now ]
      tmp == Append(locations_store, entry)
  IN
  /\ UNCHANGED << admin_knowledge, knowledge_file, uploads,
                  conversation_history, now, inflight >>
  /\ IF ~ _require_admin(auth)
       THEN /\ last' = Answer("add_location", req, 401)
            /\ UNCHANGED << locations_store, locations_file, next_uuid >>
     ELSE IF ~ truthy(name)
       THEN /\ last' = Answer("add_location", req, 400)
            /\ UNCHANGED << locations_store, locations_file, next_uuid >>
     ELSE
       /\ next_uuid < MaxUuid
       /\ next_uuid' = next_uuid + 1
       /\ \E ok \in WriteOutcomes :
            /\ locations_file' = write_json_file(locations_file, tmp, ok)
            /\ IF ok
                 THEN /\ locations_store' = tmp
                      /\ last' = [ Answer("add_location", req, 200)
                                     EXCEPT !.write = "ok" ]
                 ELSE /\ UNCHANGED locations_store
                      /\ last' = [ Answer("add_location", req, 500)
                                     EXCEPT !.write = "failed" ]

(***************************************************************************)
(* PUT /api/locations/<loc_id>.  tmp = list(locations_store) copies the    *)
(* list, not the dicts: found is the dict the store holds, and the         *)
(* assignments to found[...] change the store before the save is tried.    *)
(***************************************************************************)
LocationUpdates ==
  { [ name |-> Some(<<"L","a","b"," ">>), category |-> None,
      description |-> None, maps_query |-> None,
      latitude |-> NotNum, longitude |-> Num(7) ] }

updated_location(found, body) ==
  [ found EXCEPT
      !.name = IF body.name /= None /\ truthy(strip(body.name[1]))
                 THEN strip(body.name[1]) ELSE @,
      !.category = IF body.category /= None THEN body.category[1] ELSE @,
      !.description = IF body.description /= None THEN body.description[1] ELSE @,
      !.maps_query = IF body.maps_query /= None THEN body.maps_query[1] ELSE @,
      !.latitude = IF body.latitude /= None /\ body.latitude[1].num
                     THEN Some(body.latitude[1].val) ELSE @,
      !.longitude = IF body.longitude /= None /\ body.longitude[1].num
                      THEN Some(body.longitude[1].val) ELSE @ ]

\* the list locations_store denotes once found was assigned to
update_location_in_place(store, i, body) ==
  [ store EXCEPT ![i] = updated_location(store[i], body) ]

update_location(auth, loc_id, body) ==
  LET req == [ auth |-> auth, id |-> loc_id, body |-> body ]
      found == find_id(locations_store, loc_id)
      tmp == update_location_in_place(locations_store, found, body)
  IN
  /\ UNCHANGED << admin_knowledge, knowledge_file, uploads,
                  conversation_history, next_uuid, now, inflight >>
  /\ IF ~ _require_admin(auth)
       THEN /\ last' = Answer("update_location", req, 401)
            /\ UNCHANGED << locations_store, locations_file >>
     ELSE IF found = 0
       THEN /\ last' = Answer("update_location", req, 404)
            /\ UNCHANGED << locations_store, locations_file >>
     ELSE
       /\ locations_store' = tmp
       /\ \E ok \in WriteOutcomes :
            /\ locations_file' = write_json_file(locations_file, tmp, ok)
            /\ last' = IF ok
                 THEN [ Answer("update_location", req, 200)
                          EXCEPT !.write = "ok" ]
                 ELSE [ Answer("update_location", req, 500)
                          EXCEPT !.write = "failed" ]

(***************************************************************************)
(* DELETE /api/locations/<loc_id>                                          *)
(***************************************************************************)
delete_location(auth, loc_id) ==
  LET req == [ auth |-> auth, id |-> loc_id ]
      tmp == without_id(locations_store, loc_id)
  IN
  /\ UNCHANGED << admin_knowledge, knowledge_file, uploads,
                  conversation_history, next_uuid, now, inflight >>
  /\ IF ~ _require_admin(auth)
       THEN /\ last' = Answer("delete_location", req, 401)
            /\ UNCHANGED << locations_store, locations_file >>
     ELSE IF Len(tmp) = Len(locations_store)
       THEN /\ last' = Answer("delete_location", req, 404)
            /\ UNCHANGED << locations_store, locations_file >>
     ELSE
       \E ok \in WriteOutcomes :
         /\ locations_file' = write_json_file(locations_file, tmp, ok)
         /\ IF ok
              THEN /\ locations_store' = tmp
                   /\ last' = [ Answer("delete_location", req, 200)
                                  EXCEPT !.write = "ok" ]
              ELSE /\ UNCHANGED locations_store
                   /\ last' = [ Answer("delete_location", req, 500)
                                  EXCEPT !.write = "failed" ]

(***************************************************************************)
(* Overlapping requests.  The server runs every request in a thread of its *)
(* own (app.run, threaded by default) and the handlers take no lock, so    *)
(* another request can run between any two statements of a handler.  The   *)
(* actions below are the statements of the mutating handlers at which the  *)
(* shared state is read or written, for a request that passed              *)
(* _require_admin and the validation of its body; inflight[t] is the frame *)
(* of the handler thread t runs: the request, the position (pc), the local *)
(* list (entries, or tmp in the location handlers), the id of the dict     *)
(* found by an update and the body keys still to be looked at (todo), the  *)
(* status answered and, for a read, the collection serialized (seen).      *)
(* before is the value the tier had when the handler copied it, and alone  *)
(* tells that no other request has changed the tier since.                 *)
(*                                                                         *)
(* A list copy is shallow: the dict of an entry is one object, shared by   *)
(* ai_assistant.admin_knowledge (or locations_store) and by every local    *)
(* list that holds it.  An entry keeps its id for the life of the process, *)
(* so the object is identified by that id, and an assignment to a key of   *)
(* found changes the entry in every list that holds it.                    *)
(***************************************************************************)
Threads == { "t1", "t2" }

\* clear() and extend(tmp) of two overlapping requests can leave an entry
\* twice in locations_store, and the list then grows with every request: a
\* location request is started while the list holds at most MaxStore entries
MaxStore == 2

Handler(op, req, pc) ==
  [ op |-> op, req |-> req, pc |-> pc, before |-> << >>, entries |-> << >>,
    found |-> 0, todo |-> << >>, status |-> 0, seen |-> << >>,
    alone |-> TRUE ]

Idle == Handler("none", None, "idle")

Running(t) == inflight[t].pc \notin { "idle", "done" }

Done(frame, status) == [ frame EXCEPT !.pc = "done", !.status = status ]

\* the frame of another handler once this one has changed the tier of ops
disturbed(frame, ops) ==
  IF frame.op \in ops /\ frame.pc \notin { "idle", "done" }
    THEN [ frame EXCEPT !.alone = FALSE ] ELSE frame

KnowledgeOps == { "add_knowledge", "update_knowledge", "delete_knowledge" }

LocationOps == { "add_location", "update_location", "delete_location" }

\* found[key] = value, seen through a list that may hold found
assign(list, id, key, value) ==
  [ i \in 1..Len(list) |->
      IF list[i].id = id THEN [ list[i] EXCEPT ![key] = value ] ELSE list[i] ]

\* add_knowledge up to entries.append(entry)
add_knowledge_copy(t, body) ==
  LET title == IF body.title /= None /\ truthy(body.title[1])
                 THEN body.title[1] ELSE <<"C","u","s","t","o","m">>
      responses == IF body.responses = None /\ body.response /= None
                     THEN List(<< body.response[1] >>)
                     ELSE body.responses
      entry == [ id         |-> uuid4,
                 title      |-> title,
                 keywords   |-> lower_all(body.keywords[1].val),
                 responses  |-> responses[1].val,
                 created_at |-> now,
                 source_pdf |-> None ]
  IN
  /\ ~ Running(t)
  /\ nonempty_list(body.keywords) /\ nonempty_list(responses)
  /\ next_uuid < MaxUuid
  /\ next_uuid' = next_uuid + 1
  /\ inflight' = [ inflight EXCEPT ![t] =
       [ Handler("add_knowledge", [ body |-> body ], "save") EXCEPT
           !.before = admin_knowledge,
           !.entries = Append(admin_knowledge, entry),
           !.found = uuid4 ] ]
  /\ UNCHANGED << admin_knowledge, knowledge_file, locations_store,
                  locations_file, uploads, conversation_history, now, last >>

\* delete_knowledge up to the test of the two lengths
delete_knowledge_filter(t, entry_id) ==
  LET entries == without_id(admin_knowledge, entry_id)
      frame == [ Handler("delete_knowledge", [ id |-> entry_id ], "save") EXCEPT
                   !.before = admin_knowledge,
                   !.entries = entries,
                   !.found = entry_id ]
  IN
  /\ ~ Running(t)
  /\ inflight' = [ inflight EXCEPT ![t] =
       IF Len(entries) = Len(admin_knowledge) THEN Done(frame, 404) ELSE frame ]
  /\ UNCHANGED << admin_knowledge, knowledge_file, locations_store,
                  locations_file, uploads, conversation_history, next_uuid,
                  now, last >>

\* update_knowledge up to the search of found
update_knowledge_find(t, entry_id, body) ==
  LET frame == [ Handler("update_knowledge",
                         [ id |-> entry_id, body |-> body ], "assign") EXCEPT
                   !.before = admin_knowledge,
                   !.entries = admin_knowledge,
                   !.found = entry_id,
                   !.todo = << "title", "keywords", "responses" >> ]
  IN
  /\ ~ Running(t)
  /\ inflight' = [ inflight EXCEPT ![t] =
       IF find_id(admin_knowledge, entry_id) = 0 THEN Done(frame, 404) ELSE frame ]
  /\ UNCHANGED << admin_knowledge, knowledge_file, locations_store,
                  locations_file, uploads, conversation_history, next_uuid,
                  now, last >>

\* _save_admin_entries(entries) and the test of its result
knowledge_save(t) ==
  LET frame == inflight[t] IN
  /\ frame.pc = "save" /\ frame.op \in KnowledgeOps
  /\ \E ok \in WriteOutcomes :
       /\ knowledge_file' = write_json_file(knowledge_file, frame.entries, ok)
       /\ inflight' = [ inflight EXCEPT ![t] =
            IF ok THEN [ frame EXCEPT !.pc = "swap" ] ELSE Done(frame, 500) ]
  /\ UNCHANGED << admin_knowledge, locations_store, locations_file, uploads,
                  conversation_history, next_uuid, now, last >>

\* ai_assistant.admin_knowledge = entries, and the answer
knowledge_swap(t) ==
  LET frame == inflight[t] IN
  /\ frame.pc = "swap" /\ frame.op \in KnowledgeOps
  /\ admin_knowledge' = frame.entries
  /\ inflight' = [ u \in Threads |->
       IF u = t THEN Done(frame, 200) ELSE disturbed(inflight[u], KnowledgeOps) ]
  /\ UNCHANGED << knowledge_file, locations_store, locations_file, uploads,
                  conversation_history, next_uuid, now, last >>

\* GET /api/knowledge
get_knowledge(t) ==
  /\ ~ Running(t)
  /\ inflight' = [ inflight EXCEPT ![t] =
       [ Done(Handler("get_knowledge", None, "done"), 200) EXCEPT
           !.seen = admin_knowledge ] ]
  /\ UNCHANGED << admin_knowledge, knowledge_file, locations_store,
                  locations_file, uploads, conversation_history, next_uuid,
                  now, last >>

\* add_location up to tmp.append(entry)
add_location_copy(t, body) ==
  LET name == strip(str_or(body.name, << >>))
      entry == [ id          |-> uuid4,
                 name        |-> name,
                 category    |-> str_or(body.category, <<"G","e","n","e","r","a","l">>),
                 description |-> str_or(body.description, << >>),
                 maps_query  |-> str_or(body.maps_query, << >>),
                 latitude    |-> to_float_or_none(body.latitude),
                 longitude   |-> to_float_or_none(body.longitude),
                 created_at  |-> now ]
  IN
  /\ ~ Running(t)
  /\ Len(locations_store) <= MaxStore
  /\ truthy(name)
  /\ next_uuid < MaxUuid
  /\ next_uuid' = next_uuid + 1
  /\ inflight' = [ inflight EXCEPT ![t] =
       [ Handler("add_location", [ body |-> body ], "save") EXCEPT
           !.before = locations_store,
           !.entries = Append(locations_store, entry),
           !.found = uuid4 ] ]
  /\ UNCHANGED << admin_knowledge, knowledge_file, locations_store,
                  locations_file, uploads, conversation_history, now, last >>

\* delete_location up to the test of the two lengths
delete_location_filter(t, loc_id) ==
  LET tmp == without_id(locations_store, loc_id)
      frame == [ Handler("delete_location", [ id |-> loc_id ], "save") EXCEPT
                   !.before = locations_store,
                   !.entries = tmp,
                   !.found = loc_id ]
  IN
  /\ ~ Running(t)
  /\ Len(locations_store) <= MaxStore
  /\ inflight' = [ inflight EXCEPT ![t] =
       IF Len(tmp) = Len(locations_store) THEN Done(frame, 404) ELSE frame ]
  /\ UNCHANGED << admin_knowledge, knowledge_file, locations_store,
                  locations_file, uploads, conversation_history, next_uuid,
                  now, last >>

\* update_location up to the search of found
update_location_find(t, loc_id, body) ==
  LET frame == [ Handler("update_location",
                         [ id |-> loc_id, body |-> body ], "assign") EXCEPT
                   !.before = locations_store,
                   !.entries = locations_store,
                   !.found = loc_id,
                   !.todo = << "name", "category", "description",
                               "maps_query", "latitude", "longitude" >> ]
  IN
  /\ ~ Running(t)
  /\ Len(locations_store) <= MaxStore
  /\ inflight' = [ inflight EXCEPT ![t] =
       IF find_id(locations_store, loc_id) = 0 THEN Done(frame, 404) ELSE frame ]
  /\ UNCHANGED << admin_knowledge, knowledge_file, locations_store,
                  locations_file, uploads, conversation_history, next_uuid,
                  now, last >>

\* one "if key in body ...: found[key] = ..." of update_knowledge or
\* update_location: the next key of todo
update_assign(t) ==
  LET frame == inflight[t]
      key == Head(frame.todo)
      found == frame.entries[find_id(frame.entries, frame.found)]
      value == IF frame.op = "update_knowledge"
                 THEN updated_entry(found, frame.req.body)[key]
                 ELSE updated_location(found, frame.req.body)[key]
      ops == IF frame.op = "update_knowledge" THEN KnowledgeOps ELSE LocationOps
      rest == Tail(frame.todo)
  IN
  /\ frame.pc = "assign"
  /\ admin_knowledge' = IF frame.op = "update_knowledge"
                          THEN assign(admin_knowledge, frame.found, key, value)
                          ELSE admin_knowledge
  /\ locations_store' = IF frame.op = "update_location"
                          THEN assign(locations_store, frame.found, key, value)
                          ELSE locations_store
  /\ inflight' = [ u \in Threads |->
       LET shared == IF inflight[u].op \in ops
                       THEN [ inflight[u] EXCEPT
                                !.entries = assign(@, frame.found, key, value) ]
                       ELSE inflight[u]
       IN  IF u = t
             THEN [ shared EXCEPT !.todo = rest,
                                  !.pc = IF rest = << >> THEN "save" ELSE "assign" ]
             ELSE disturbed(shared, ops) ]
  /\ UNCHANGED << knowledge_file, locations_file, uploads,
                  conversation_history, next_uuid, now, last >>

\* _save_locations(tmp) and the test of its result
locations_save(t) ==
  LET frame == inflight[t] IN
  /\ frame.pc = "save" /\ frame.op \in LocationOps
  /\ \E ok \in WriteOutcomes :
       /\ locations_file' = write_json_file(locations_file, frame.entries, ok)
       /\ inflight' = [ inflight EXCEPT ![t] =
            IF ok THEN [ frame EXCEPT !.pc = "clear" ] ELSE Done(frame, 500) ]
  /\ UNCHANGED << admin_knowledge, knowledge_file, locations_store, uploads,
                  conversation_history, next_uuid, now, last >>

\* locations_store.clear()
locations_clear(t) ==
  LET frame == inflight[t] IN
  /\ frame.pc = "clear" /\ frame.op \in LocationOps
  /\ locations_store' = << >>
  /\ inflight' = [ u \in Threads |->
       IF u = t THEN [ frame EXCEPT !.pc = "extend" ]
                ELSE disturbed(inflight[u], LocationOps) ]
  /\ UNCHANGED << admin_knowledge, knowledge_file, locations_file, uploads,
                  conversation_history, next_uuid, now, last >>

\* locations_store.extend(tmp), and the answer
locations_extend(t) ==
  LET frame == inflight[t] IN
  /\ frame.pc = "extend" /\ frame.op \in LocationOps
  /\ locations_store' = locations_store \o frame.entries
  /\ inflight' = [ u \in Threads |->
       IF u = t THEN Done(frame, 200) ELSE disturbed(inflight[u], LocationOps) ]
  /\ UNCHANGED << admin_knowledge, knowledge_file, locations_file, uploads,
                  conversation_history, next_uuid, now, last >>

\* GET /api/locations
list_locations(t) ==
  /\ ~ Running(t)
  /\ inflight' = [ inflight EXCEPT ![t] =
       [ Done(Handler("list_locations", None, "done"), 200) EXCEPT
           !.seen = locations_store ] ]
  /\ UNCHANGED << admin_knowledge, knowledge_file, locations_store,
                  locations_file, uploads, conversation_history, next_uuid,
                  now, last >>

\* the administrator: the token in the X-Admin-Token header
Admin == [ header |-> Some("changeme"), arg |-> None ]

(***************************************************************************)
(* The scorer on its own.  The inputs are drawn at the start: a message    *)
(* put together from the parts below, and one of four entries the handlers *)
(* can create (keywords in lower case, at least one response).  The two    *)
(* actions score the message as get_response and get_response_with_meta do *)
(* (lowercased text, set of tokens), then the message extended by a word.  *)
(***************************************************************************)
\* the keyword phrase of the first entry; its five tokens in another order;
\* the title; the first two responses; the third response; a word holding
\* the keyword "bus"; a stopword and a question
MessageParts ==
  << << "K", "1", " ", "k", "2", " ", "k", "3", " ", "k", "4", " ", "k", "5" >>,
     << "k", "5", ",", "k", "4", ",", "k", "3", ",", "k", "2", ",", "k", "1" >>,
     << "t", "1", " ", "T", "2", " ", "t", "3" >>,
     << "r", "1", " ", "r", "2", " ", "r", "3", " ", "r", "4", " ", "r", "5", " ", "r", "6" >>,
     << "x", "1", " ", "x", "2" >>,
     << "B", "u", "s", "y" >>,
     << "t", "h", "e", " ", "f", "e", "e", "?" >> >>

ScoredMessages ==
  { strip(concat_all([ i \in 1..Len(MessageParts) |->
                   IF i \in chosen THEN MessageParts[i] \o <<" ">> ELSE << >> ])) :
      chosen \in SUBSET (1..Len(MessageParts)) \ { {} } }

\* more tokens in common with the message than each cap, and a third response
PhraseEntry ==
  [ id         |-> 1,
    title      |-> << "T", "1", " ", "t", "2", " ", "t", "3" >>,
    keywords   |-> << << "k", "1", " ", "k", "2", " ", "k", "3", " ", "k", "4", " ", "k", "5" >>,
        << "b", "u", "s" >>,
        << "f", "e", "e" >> >>,
    responses  |-> << << "R", "1", " ", "r", "2", " ", "r", "3" >>,
        << "r", "4", " ", "r", "5", " ", "r", "6", " ", "t", "h", "e" >>,
        << "x", "1", " ", "x", "2" >> >>,
    created_at |-> 0,
    source_pdf |-> None ]

\* an empty keyword, as POST /api/knowledge {"keywords": ["", "bus"]} stores
EmptyKeywordEntry ==
  [ id         |-> 2,
    title      |-> << "C", "u", "s", "t", "o", "m" >>,
    keywords   |-> << << >>,
        << "b", "u", "s" >> >>,
    responses  |-> << << "f", "e", "e" >> >>,
    created_at |-> 0,
    source_pdf |-> None ]

\* the same keyword twice, an empty title
TwiceEntry ==
  [ id         |-> 3,
    title      |-> << >>,
    keywords   |-> << << "b", "u", "s" >>,
        << "b", "u", "s" >>,
        << "t", "1" >> >>,
    responses  |-> << << "x", "1" >>,
        << "x", "2" >>,
        << "t", "1" >> >>,
    created_at |-> 0,
    source_pdf |-> None ]

\* a keyword that is a stopword
StopwordEntry ==
  [ id         |-> 4,
    title      |-> << "t", "h", "e", " ", "b", "u", "s" >>,
    keywords   |-> << << "t", "h", "e" >> >>,
    responses  |-> << << "k", "1", " ", "k", "2", " ", "k", "3", " ", "k", "4", " ", "k", "5", " ", "k", "1" >> >>,
    created_at |-> 0,
    source_pdf |-> None ]

ScoredEntries == { PhraseEntry, EmptyKeywordEntry, TwiceEntry, StopwordEntry }

MessageExtensions ==
  { << " ", "B", "u", "s", "y" >>,
    << " ", "b", "u", "s" >>,
    << " ", "k", "1", " ", "k", "2", " ", "k", "3", " ", "k", "4", " ", "k", "5" >>,
    << " ", "t", "h", "e" >> }

\* score = self._score_entry_match(user_message_lower, user_tokens, entry)
score_of(user_message, entry) ==
  _score_entry_match(lower(user_message), Range(_tokenize(user_message)), entry)

score_entry ==
  /\ last.op = "input"
  /\ last' = [ Answer("_score_entry_match", last.req, 200) EXCEPT
                 !.total = score_of(last.req.message, last.req.entry) ]
  /\ UNCHANGED << admin_knowledge, knowledge_file, locations_store,
                  locations_file, uploads, conversation_history, next_uuid,
                  now, inflight >>

\* the same entry scored for the message with one more word
score_extended(word) ==
  LET longer == last.req.message \o word IN
  /\ last.op = "_score_entry_match"
  /\ last.req.shorter = None
  /\ last' = [ Answer("_score_entry_match",
                      [ message |-> longer, entry |-> last.req.entry,
                        shorter |-> Some([ message |-> last.req.message,
                                           total |-> last.total ]) ], 200) EXCEPT
                 !.total = score_of(longer, last.req.entry) ]
  /\ UNCHANGED << admin_knowledge, knowledge_file, locations_store,
                  locations_file, uploads, conversation_history, next_uuid,
                  now, inflight >>

NextScore ==
  \/ score_entry
  \/ \E word \in MessageExtensions : score_extended(word)

InitScore ==
  /\ knowledge_file = None
  /\ locations_file = None
  /\ uploads = {}
  /\ admin_knowledge = << >>
  /\ locations_store = << >>
  /\ conversation_history = << >>
  /\ next_uuid = 0
  /\ now = 0
  /\ inflight = [ t \in Threads |-> Idle ]
  /\ \E user_message \in ScoredMessages, entry \in ScoredEntries :
       last = Answer("input", [ message |-> user_message, entry |-> entry,
                                shorter |-> None ], 0)

(***************************************************************************)
(* The ingestion on its own.  The inputs are drawn at the start: an upload *)
(* by the administrator, and the tier it meets, empty or holding the entry *)
(* that add_knowledge(Admin, HoursBody) creates and saves.  The one action *)
(* is the handler.                                                         *)
(***************************************************************************)
\* c * n
repeat(c, n) == [ i \in 1..n |-> c ]

TextPdf(pages) ==
  Some([ filename |-> <<"m"," ","p",".","P","D","F">>, pages |-> Some(pages) ])

IngestRequests ==
  {
    \* the example of the contract: two paragraphs
    [ file |-> TextPdf(<< << "P", "a", "r", "a", " ", "o", "n", "e", ".", "\n", "\n", "P", "a", "r", "a", " ", "t", "w", "o", "." >> >>),
      form |-> [ title |-> Some(<< "N", "o", "t", "e", "s" >>),
                keywords |-> Some(<< "F", "e", "e", ",", " ", "b", "u", "s" >>) ] ],
    \* a paragraph of 800, 801 and 1601 characters
    [ file |-> TextPdf(<< repeat("x", ChunkSize) >>),
      form |-> NoForm ],
    [ file |-> TextPdf(<< repeat("x", ChunkSize + 1) >>),
      form |-> NoForm ],
    [ file |-> TextPdf(<< repeat("x", 2 * ChunkSize + 1) >>),
      form |-> NoForm ],
    \* two pages
    [ file |-> TextPdf(<< repeat("x", ChunkSize + 1),
                 << "G", "o", " ", "o", "n" >> >>),
      form |-> NoForm ],
    \* a space at the end of the first slice
    [ file |-> TextPdf(<< repeat("x", ChunkSize - 1) \o << " ", "y", "y" >> >>),
      form |-> NoForm ],
    \* eleven pages of one paragraph
    [ file |-> TextPdf(<< << "p", "0", "1" >>,
                 << "p", "0", "2" >>,
                 << "p", "0", "3" >>,
                 << "p", "0", "4" >>,
                 << "p", "0", "5" >>,
                 << "p", "0", "6" >>,
                 << "p", "0", "7" >>,
                 << "p", "0", "8" >>,
                 << "p", "0", "9" >>,
                 << "p", "1", "0" >>,
                 << "p", "1", "1" >> >>),
      form |-> NoForm ],
    \* twelve paragraphs on one page, behind blank lines of several kinds
    [ file |-> TextPdf(<< << "q", "0", "1", "\n", " ", "\n", "q", "0", "2", "\n",
                 "\t", "\n", "\n", "q", "0", "3", "\n", "\n", "q", "0",
                 "4", "\n", " ", "\n", "q", "0", "5", "\n", "\t", "\n",
                 "\n", "q", "0", "6", "\n", "\n", "q", "0", "7", "\n", " ",
                 "\n", "q", "0", "8", "\n", "\t", "\n", "\n", "q", "0",
                 "9", "\n", "\n", "q", "1", "0", "\n", " ", "\n", "q", "1",
                 "1", "\n", "\t", "\n", "\n", "q", "1", "2" >> >>),
      form |-> NoForm ],
    \* one newline is no paragraph break; white space around the paragraphs
    [ file |-> TextPdf(<< << " ", " ", "L", "i", "n", "e", " ", "o", "n", "e", "\n",
                 "l", "i", "n", "e", " ", "t", "w", "o", " ", " ", "\n",
                 "\n", "\n", " ", " ", "N", "e", "x", "t", " " >> >>),
      form |-> NoForm ],
    \* white space only, no text on any page, NUL only
    [ file |-> TextPdf(<< << " ", "\n" >>,
                 << "\t" >> >>),
      form |-> [ title |-> None,
                keywords |-> Some(<< "b", "u", "s" >>) ] ],
    [ file |-> TextPdf(<< >>),
      form |-> [ title |-> None,
                keywords |-> Some(<< "b", "u", "s" >>) ] ],
    [ file |-> TextPdf(<< << NUL >> >>),
      form |-> NoForm ],
    \* 27 keywords in the form
    [ file |-> TextPdf(<< << "B", "u", "s" >> >>),
      form |-> [ title |-> None,
                keywords |-> Some(<< "k", "0", "1", ",", "k", "0", "2", ",",
                              "k", "0", "3", ",", "k", "0", "4", ",", "k",
                              "0", "5", ",", "k", "0", "6", ",", "k", "0",
                              "7", ",", "k", "0", "8", ",", "k", "0", "9",
                              ",", "k", "1", "0", ",", "k", "1", "1", ",",
                              "k", "1", "2", ",", "k", "1", "3", ",", "k",
                              "1", "4", ",", "k", "1", "5", ",", "k", "1",
                              "6", ",", "k", "1", "7", ",", "k", "1", "8",
                              ",", "k", "1", "9", ",", "k", "2", "0", ",",
                              "k", "2", "1", ",", "k", "2", "2", ",", "k",
                              "2", "3", ",", "k", "2", "4", ",", "k", "2",
                              "5", ",", "k", "2", "6", ",", "k", "2",
                              "7" >>) ] ],
    \* no keyword: short tokens and stopwords only
    [ file |-> TextPdf(<< << "t", "o", " ", "b", "e", " ", "o", "r", " ", "n", "o" >> >>),
      form |-> NoForm ],
    \* the same keyword several times
    [ file |-> TextPdf(<< << "b", "u", "s", " ", "b", "u", "s", "." >> >>),
      form |-> [ title |-> None,
                keywords |-> Some(<< "B", "u", "s", ",", " ", "b", "u", "s",
                              " ", ",", "B", "U", "S", ",", ",", " " >>) ] ],
    \* stopwords in the title
    [ file |-> TextPdf(<< << "B", "u", "s" >> >>),
      form |-> [ title |-> Some(<< "T", "h", "e", " ", "B", "u", "s", " ", "f", "o", "r", " ", "Y", "o", "u" >>),
                keywords |-> None ] ],
    \* no PDF by its name
    [ file |-> Some([ filename |-> << "n", "o", "t", "e", "s", ".", "t", "x", "t" >>,
                      pages |-> Some(<< << "B", "u", "s" >> >>) ]),
      form |-> [ title |-> None,
                keywords |-> Some(<< "b", "u", "s" >>) ] ],
    \* PdfReader raises
    [ file |-> Some([ filename |-> << "m", " ", "p", ".", "P", "D", "F" >>,
                      pages |-> None ]),
      form |-> NoForm ] }

HoursEntry ==
  [ id         |-> 1,
    title      |-> <<"H","o","u","r","s">>,
    keywords   |-> << <<"w","i","f","i">> >>,
    responses  |-> << <<"A","s","k","?">>, <<"O","p","e","n">> >>,
    created_at |-> 0,
    source_pdf |-> None ]

ingest ==
  /\ last.op = "input"
  /\ upload_pdf_knowledge(last.req.auth, last.req.file, last.req.form)

NextIngest == ingest

InitIngest ==
  /\ \E saved \in { << >>, << HoursEntry >> } :
       /\ admin_knowledge = saved
       /\ knowledge_file = IF saved = << >> THEN None ELSE Some(saved)
       /\ next_uuid = Len(saved)
  /\ locations_file = None
  /\ locations_store = << >>
  /\ uploads = {}
  /\ conversation_history = << >>
  /\ now = 0
  /\ inflight = [ t \in Threads |-> Idle ]
  /\ \E r \in IngestRequests :
       last = Answer("input", [ auth |-> Admin, file |-> r.file,
                                form |-> r.form ], 0)

(***************************************************************************)
(* The tokenizer on its own.  The text is drawn at the start, put together *)
(* from the parts below: words in mixed case, punctuation, stopwords,      *)
(* digits, white space and a letter outside ASCII.  The action records the *)
(* list _tokenize returns in the text field of the answer.                 *)
(***************************************************************************)
TextParts ==
  << << "A", "d", "m", "i", "s", "s", "i", "o", "n" >>,
     << " ", "R", "e", "q", "u", "i", "r", "e", "m", "e", "n", "t", "s", "?" >>,
     << " ", "i", "s", " ", "t", "h", "e" >>,
     << "a", "1", "B", "2" >>,
     << "-", "-", "x", "_", "y" >>,
     << "\n", KELVIN, "e", "l", "v", "i", "n" >>,
     << " ", "2", "0", "2", "4", " " >> >>

TokenizedTexts ==
  { concat_all([ i \in 1..Len(TextParts) |->
                   IF i \in chosen THEN TextParts[i] ELSE << >> ]) :
      chosen \in SUBSET (1..Len(TextParts)) }

tokenize ==
  /\ last.op = "input"
  /\ last.req \in TokenizedTexts
  /\ last' = [ Answer("_tokenize", last.req, 200) EXCEPT
                 !.text = Some(_tokenize(last.req)) ]
  /\ UNCHANGED << admin_knowledge, knowledge_file, locations_store,
                  locations_file, uploads, conversation_history, next_uuid,
                  now, inflight >>

NextTokenize == tokenize

InitTokenize ==
  /\ knowledge_file = None
  /\ locations_file = None
  /\ uploads = {}
  /\ admin_knowledge = << >>
  /\ locations_store = << >>
  /\ conversation_history = << >>
  /\ next_uuid = 0
  /\ now = 0
  /\ inflight = [ t \in Threads |-> Idle ]
  /\ \E text \in TokenizedTexts : last = Answer("input", text, 0)

(***************************************************************************)
(* Process start: CollegeAI.__init__ and the module-level _load_locations. *)
(* Both files are documents this program wrote (or are missing), so every  *)
(* entry has its id, title and created_at, and its keywords and responses  *)
(* are lists of strings; the loader rebuilds each entry from the five keys *)
(* it knows.                                                               *)
(***************************************************************************)
_load_admin_knowledge(file) ==
  LET entries == read_json_file(file)
  IN  [ i \in 1..Len(entries) |->
          [ id         |-> entries[i].id,
            title      |-> IF truthy(entries[i].title)
                             THEN entries[i].title
                             ELSE <<"C","u","s","t","o","m">>,
            keywords   |-> lower_all(entries[i].keywords),
            responses  |-> entries[i].responses,
            created_at |-> entries[i].created_at,
            source_pdf |-> None ] ]

_load_locations(file) ==
  LET raw == read_json_file(file)
  IN  [ i \in 1..Len(raw) |->
          [ raw[i] EXCEPT
              !.name = IF truthy(@) THEN @
                       ELSE <<"U","n","n","a","m","e","d"," ",
                              "L","o","c","a","t","i","o","n">>,
              !.category = IF truthy(@) THEN @
                           ELSE <<"G","e","n","e","r","a","l">> ] ]

restart ==
  /\ admin_knowledge' = _load_admin_knowledge(knowledge_file)
  /\ locations_store' = _load_locations(locations_file)
  /\ conversation_history' = << >>
  /\ last' = Answer("restart", None, 0)
  /\ inflight' = [ t \in Threads |-> Idle ]
  /\ UNCHANGED << knowledge_file, locations_file, uploads, next_uuid, now >>

Init ==
  /\ knowledge_file = None
  /\ locations_file = None
  /\ uploads = {}
  /\ admin_knowledge = _load_admin_knowledge(knowledge_file)
  /\ locations_store = _load_locations(locations_file)
  /\ conversation_history = << >>
  /\ next_uuid = 0
  /\ now = 0
  /\ last = Answer("restart", None, 0)
  /\ inflight = [ t \in Threads |-> Idle ]

\* the chat service over a tier the administrator fills
NextChat ==
  \/ \E data \in ChatData : chat(data)
  \/ get_stats
  \/ clear_history
  \/ \E body \in { HoursBody, BusBody } : add_knowledge(Admin, body)
  \/ restart

\* the administration of the two tiers
NextStore ==
  \/ \E auth \in Auths, body \in { HoursBody } \cup InvalidBodies :
       add_knowledge(auth, body)
  \/ \E auth \in Auths, id \in EntryIds, body \in UpdateBodies :
       update_knowledge(auth, id, body)
  \/ \E auth \in Auths, id \in EntryIds : delete_knowledge(auth, id)
  \/ \E auth \in Auths, r \in UploadRequests :
       upload_pdf_knowledge(auth, r.file, r.form)
  \/ \E auth \in Auths, body \in LocationBodies : add_location(auth, body)
  \/ \E auth \in Auths, id \in EntryIds, body \in LocationUpdates :
       update_location(auth, id, body)
  \/ \E auth \in Auths, id \in EntryIds : delete_location(auth, id)

\* bodies of PUT /api/knowledge/<id> with keys the handler ignores or
\* refuses: an 'id' key, an empty responses list
TierUpdates ==
  { [ id |-> None, title |-> Some(<<"B","u","s">>), keywords |-> List(<< >>),
      responses |-> List(<< <<"f","e","e","?">> >>) ],
    [ id |-> Some(1), title |-> None, keywords |-> List(<< <<"F","e","e">> >>),
      responses |-> List(<< >>) ] }

\* the life of the admin tier: every operation that creates, changes,
\* removes or reloads its entries, by the administrator
NextTier ==
  \/ \E body \in { HoursBody } \cup InvalidBodies : add_knowledge(Admin, body)
  \/ \E id \in EntryIds, body \in TierUpdates : update_knowledge(Admin, id, body)
  \/ \E id \in EntryIds : delete_knowledge(Admin, id)
  \/ \E r \in UploadRequests : upload_pdf_knowledge(Admin, r.file, r.form)
  \/ restart

AnswerMessages == { <<"b","u","s","?">>, <<"W","i","f","i">> }

\* the chat service over a tier of added and ingested entries
NextAnswer ==
  \/ \E m \in AnswerMessages : chat(Some(m))
  \/ add_knowledge(Admin, HoursBody)
  \/ upload_pdf_knowledge(Admin, MapPdf, NoForm)
  \/ restart

\* one query, asked while the administrator changes the tier
NextOrder ==
  \/ chat(Some(<<"W","i","f","i">>))
  \/ add_knowledge(Admin, HoursBody)
  \/ \E id \in EntryIds, body \in TierUpdates : update_knowledge(Admin, id, body)
  \/ \E id \in EntryIds : delete_knowledge(Admin, id)
  \/ upload_pdf_knowledge(Admin, MapPdf, NoForm)

\* overlapping requests on the admin tier
NextRaceKnowledge ==
  \/ \E t \in Threads : add_knowledge_copy(t, HoursBody)
  \/ \E t \in Threads, id \in EntryIds, body \in UpdateBodies :
       update_knowledge_find(t, id, body)
  \/ \E t \in Threads, id \in EntryIds : delete_knowledge_filter(t, id)
  \/ \E t \in Threads : update_assign(t)
  \/ \E t \in Threads : knowledge_save(t)
  \/ \E t \in Threads : knowledge_swap(t)
  \/ \E t \in Threads : get_knowledge(t)

\* overlapping requests on the location tier
NextRaceLocations ==
  \/ \E t \in Threads, body \in LocationBodies : add_location_copy(t, body)
  \/ \E t \in Threads, id \in EntryIds, body \in LocationUpdates :
       update_location_find(t, id, body)
  \/ \E t \in Threads, id \in EntryIds : delete_location_filter(t, id)
  \/ \E t \in Threads : update_assign(t)
  \/ \E t \in Threads : locations_save(t)
  \/ \E t \in Threads : locations_clear(t)
  \/ \E t \in Threads : locations_extend(t)
  \/ \E t \in Threads : list_locations(t)

Next == NextChat \/ NextStore \/ NextTier \/ NextScore \/ NextIngest
          \/ NextTokenize \/ NextAnswer \/ NextOrder
          \/ NextRaceKnowledge \/ NextRaceLocations \/ Tick

Spec == Init /\ [][Next]_vars
SpecChat == Init /\ [][NextChat]_vars
SpecStore == Init /\ [][NextStore]_vars
SpecTokenize == InitTokenize /\ [][NextTokenize]_vars
SpecIngest == InitIngest /\ [][NextIngest]_vars
SpecScore == InitScore /\ [][NextScore]_vars
SpecAnswer == Init /\ [][NextAnswer]_vars
SpecOrder == Init /\ [][NextOrder]_vars
SpecTier == Init /\ [][NextTier]_vars
SpecRaceKnowledge == Init /\ [][NextRaceKnowledge]_vars
SpecRaceLocations == Init /\ [][NextRaceLocations]_vars

(***************************************************************************)
(* Properties of the chat service, checked under SpecChat.  They speak of  *)
(* the last request and its answer, and recompute the scores of both tiers *)
(* for the message the chat handler passed to the selector.                *)
(***************************************************************************)
LastChat == last.op = "chat" /\ last.status = 200

\* data.get('message', '').strip()
LastMessage == strip(last.req[1])

LastReply == last.text[1]

LastChosen == last.chosen[1]

AdminScores == admin_scores(admin_knowledge, LastMessage)

BuiltinScores == builtin_scores(LastMessage)

HasQuestionMark == \E i \in 1..Len(LastMessage) : LastMessage[i] = "?"

EndsWithQuestionMark(response) ==
  LET trimmed == strip(response)
  IN  trimmed /= << >> /\ trimmed[Len(trimmed)] = "?"

\* the reply is one of the given responses, with or without the follow-up
ReplyFrom(responses) ==
  \E i \in 1..Len(responses) :
    LastReply \in { responses[i], responses[i] \o FollowUp }

\* the admin entry the answer's source metadata names is entry i
SourceIs(i) ==
  /\ last.source /= None
  /\ last.source[1].type = "admin"
  /\ last.source[1].id = admin_knowledge[i].id

\* i is the earliest position holding the maximum of scores
IsEarliestMax(scores, i) ==
  /\ \A j \in 1..Len(scores) : scores[j] <= scores[i]
  /\ \A j \in 1..(i - 1) : scores[j] < scores[i]

(***************************************************************************)
(* C1: when some admin entry scores above 0 for a query, the reply comes   *)
(* from the admin tier, whatever the built-in categories score: the answer *)
(* names an admin entry as its source and its text is one of that entry's  *)
(* responses.                                                              *)
(***************************************************************************)
C1_AdminPrecedence ==
  (LastChat /\ \E i \in 1..Len(admin_knowledge) : AdminScores[i] > 0) =>
    /\ last.branch = "admin"
    /\ \E i \in 1..Len(admin_knowledge) :
         SourceIs(i) /\ ReplyFrom(admin_knowledge[i].responses)

\* an admin entry answered a query on which a built-in category scores more
\* than every admin entry
C1_Witness ==
  /\ LastChat
  /\ last.branch = "admin"
  /\ \E k \in 1..Len(knowledge_base) :
       \A i \in 1..Len(admin_knowledge) : BuiltinScores[k] > AdminScores[i]

(***************************************************************************)
(* C2: a reply never comes from an entry or a category that scores 0; when *)
(* every admin entry and every built-in category scores 0, the reply is    *)
(* one of the three default templates and carries no source.               *)
(***************************************************************************)
C2_ZeroScoreFallback ==
  LastChat =>
    /\ last.branch = "admin" =>
         \E i \in 1..Len(admin_knowledge) : SourceIs(i) /\ AdminScores[i] > 0
    /\ last.branch = "builtin" =>
         \E k \in 1..Len(knowledge_base) :
           BuiltinScores[k] > 0 /\ ReplyFrom(knowledge_base[k].responses)
    /\ ( /\ \A i \in 1..Len(admin_knowledge) : AdminScores[i] = 0
         /\ \A k \in 1..Len(knowledge_base) : BuiltinScores[k] = 0 ) =>
         /\ last.branch = "default"
         /\ \E d \in 1..Len(default_responses) : LastReply = default_responses[d]
         /\ last.source = None

\* the tier holds entries, nothing scores, and a default template answered
C2_Witness ==
  /\ LastChat
  /\ admin_knowledge /= << >>
  /\ \A i \in 1..Len(admin_knowledge) : AdminScores[i] = 0
  /\ \A k \in 1..Len(knowledge_base) : BuiltinScores[k] = 0
  /\ last.branch = "default"
  /\ last.source = None

(***************************************************************************)
(* C3: in each tier the winner is the earliest entry, in iteration order,  *)
(* among those with the maximal score (insertion order of the admin tier,  *)
(* declaration order of the built-in categories).                          *)
(***************************************************************************)
C3_EarliestWins ==
  LastChat =>
    /\ last.branch = "admin" =>
         \E i \in 1..Len(admin_knowledge) :
           SourceIs(i) /\ IsEarliestMax(AdminScores, i)
    /\ last.branch = "builtin" =>
         \E k \in 1..Len(knowledge_base) :
           /\ IsEarliestMax(BuiltinScores, k)
           /\ ReplyFrom(knowledge_base[k].responses)

\* two admin entries share the maximal positive score and the tier answered
C3_Witness ==
  /\ LastChat
  /\ last.branch = "admin"
  /\ \E i, j \in 1..Len(admin_knowledge) :
       /\ i < j
       /\ AdminScores[i] = AdminScores[j]
       /\ AdminScores[i] > 0
       /\ \A k \in 1..Len(admin_knowledge) : AdminScores[k] <= AdminScores[i]

C5_QuestionLeftUnchanged ==
  (LastChat /\ HasQuestionMark /\ EndsWithQuestionMark(LastChosen)) =>
    LastReply = LastChosen

(***************************************************************************)
(* C6: when the query contains no '?', the reply is exactly one of the     *)
(* response strings of the chosen admin entry or built-in category, or one *)
(* of the default templates, with nothing appended.                        *)
(***************************************************************************)
C6_NoQuestionNoSuffix ==
  (LastChat /\ ~ HasQuestionMark) =>
    /\ last.branch = "admin" =>
         \E i \in 1..Len(admin_knowledge) :
           /\ SourceIs(i)
           /\ \E r \in 1..Len(admin_knowledge[i].responses) :
                LastReply = admin_knowledge[i].responses[r]
    /\ last.branch = "builtin" =>
         \E k \in 1..Len(knowledge_base) :
           /\ BuiltinScores[k] > 0
           /\ \E r \in 1..Len(knowledge_base[k].responses) :
                LastReply = knowledge_base[k].responses[r]
    /\ last.branch = "default" =>
         \E d \in 1..Len(default_responses) : LastReply = default_responses[d]
    /\ last.branch \in { "admin", "builtin", "default" }

\* a built-in category answered a query without '?'
C6_Witness ==
  /\ LastChat
  /\ ~ HasQuestionMark
  /\ last.branch = "builtin"
  /\ \E k \in 1..Len(knowledge_base) :
       \E r \in 1..Len(knowledge_base[k].responses) :
         LastReply = knowledge_base[k].responses[r]

(***************************************************************************)
(* C7: the history strictly alternates user turn, bot turn; an accepted    *)
(* chat appends exactly its user turn and its bot turn, a clear (or a      *)
(* restart of the process) empties the history and nothing else touches    *)
(* it, so its length is twice the number of chats accepted since the last  *)
(* clear; /api/stats reports half the length as total_conversations.       *)
(***************************************************************************)
Alternates(history) ==
  /\ Len(history) % 2 = 0
  /\ \A i \in 1..Len(history) :
       history[i].role = IF i % 2 = 1 THEN "user" ELSE "bot"

C7_HistoryStep ==
  /\ Alternates(conversation_history')
  /\ IF last'.op = "chat" /\ last'.status = 200
       THEN /\ Len(conversation_history') = Len(conversation_history) + 2
            /\ SubSeq(conversation_history', 1, Len(conversation_history))
                 = conversation_history
            /\ conversation_history'[Len(conversation_history) + 1].text
                 = strip(last'.req[1])
            /\ conversation_history'[Len(conversation_history) + 2].text
                 = last'.text[1]
     ELSE IF last'.op \in { "clear_history", "restart" }
       THEN conversation_history' = << >>
     ELSE conversation_history' = conversation_history
  /\ last'.op = "get_stats" => 2 * last'.total = Len(conversation_history')

C7_HistoryAlternates == [][C7_HistoryStep]_vars

\* two chats were accepted and /api/stats counts two conversations
C7_Witness ==
  /\ last.op = "get_stats"
  /\ last.total = 2
  /\ Len(conversation_history) = 4
  /\ conversation_history[1].role = "user"
  /\ conversation_history[2].role = "bot"

(***************************************************************************)
(* Properties of the administration of the two tiers, checked under        *)
(* SpecStore.  They relate a step to the request it serves (last'.req) and *)
(* to the answer it gives.                                                 *)
(***************************************************************************)
\* the request carries the admin token where the handlers look for it: in
\* the header, or in the query when the header is missing or empty
PresentsToken(auth) ==
  \/ auth.header = Some(ADMIN_TOKEN)
  \/ auth.header \in { None, Some("") } /\ auth.arg = Some(ADMIN_TOKEN)

Ids(tier) == { tier[i].id : i \in 1..Len(tier) }

StoreOps ==
  { "add_knowledge", "update_knowledge", "delete_knowledge",
    "upload_pdf_knowledge", "add_location", "update_location",
    "delete_location" }

\* both tiers, in memory and on disk
stores == << admin_knowledge, knowledge_file, locations_store, locations_file >>

(***************************************************************************)
(* C8: a mutation whose persistence step fails answers with an error and   *)
(* leaves both tiers as they were, in memory and on disk.                  *)
(***************************************************************************)
C8_FailedWriteIsNoOp ==
  [][ last'.write = "failed" =>
        /\ last'.status = 500
        /\ UNCHANGED stores ]_vars

(***************************************************************************)
(* C9: an authorized delete of an id the tier does not hold answers 404,   *)
(* writes nothing and leaves both tiers unchanged; after a successful      *)
(* delete the id is no longer held, so a second delete of it answers 404.  *)
(***************************************************************************)
C9_DeleteStep ==
  /\ ( /\ last'.op = "delete_knowledge"
       /\ PresentsToken(last'.req.auth)
       /\ last'.req.id \notin Ids(admin_knowledge) ) =>
       /\ last'.status = 404
       /\ last'.write = "none"
       /\ UNCHANGED stores
  /\ ( /\ last'.op = "delete_location"
       /\ PresentsToken(last'.req.auth)
       /\ last'.req.id \notin Ids(locations_store) ) =>
       /\ last'.status = 404
       /\ last'.write = "none"
       /\ UNCHANGED stores
  /\ (last'.op = "delete_knowledge" /\ last'.status = 200) =>
       last'.req.id \notin Ids(admin_knowledge')
  /\ (last'.op = "delete_location" /\ last'.status = 200) =>
       last'.req.id \notin Ids(locations_store')

C9_DeleteAbsentIsNotFound == [][C9_DeleteStep]_vars

\* the only entry ever created was saved, then deleted with success (the
\* file exists and is empty), and a further delete of its id answered 404
C9_Witness ==
  /\ last.op = "delete_knowledge"
  /\ PresentsToken(last.req.auth)
  /\ last.status = 404
  /\ last.req.id = 1
  /\ next_uuid = 1
  /\ knowledge_file = Some(<< >>)
  /\ admin_knowledge = << >>

(***************************************************************************)
(* C10: a mutating request without the valid admin token answers 401, and  *)
(* an authorized create with empty or missing keywords or responses, or    *)
(* with an empty location name, answers 400; in both cases nothing is      *)
(* written and no tier, no file and no identifier is consumed.  The 401    *)
(* does not depend on the body or the id being valid.                      *)
(***************************************************************************)
EmptyOrMissing(field) == field = None \/ field[1].val = << >>

InvalidKnowledge(body) ==
  \/ EmptyOrMissing(body.keywords)
  \/ IF body.responses /= None
       THEN EmptyOrMissing(body.responses)
       ELSE body.response = None

EmptyName(body) ==
  \/ body.name = None
  \/ \A i \in 1..Len(body.name[1]) : body.name[1][i] \in Whitespace

Rejected(status) ==
  /\ last'.status = status
  /\ last'.write = "none"
  /\ UNCHANGED << stores, uploads, next_uuid >>

C10_RejectStep ==
  /\ (last'.op \in StoreOps /\ ~ PresentsToken(last'.req.auth)) =>
       Rejected(401)
  /\ ( /\ last'.op = "add_knowledge"
       /\ PresentsToken(last'.req.auth)
       /\ InvalidKnowledge(last'.req.body) ) =>
       Rejected(400)
  /\ ( /\ last'.op = "add_location"
       /\ PresentsToken(last'.req.auth)
       /\ EmptyName(last'.req.body) ) =>
       Rejected(400)

C10_RejectedBeforeAnyChange == [][C10_RejectStep]_vars

\* a delete of an entry the tier holds was refused for its token
C10_Witness ==
  /\ last.op = "delete_knowledge"
  /\ ~ PresentsToken(last.req.auth)
  /\ last.status = 401
  /\ last.req.id \in Ids(admin_knowledge)
  /\ knowledge_file = Some(admin_knowledge)

(***************************************************************************)
(* Invariants of the admin tier, checked under SpecTier: the administrator *)
(* adds, updates, deletes and ingests, and the process restarts from the   *)
(* file.                                                                   *)
(***************************************************************************)
persisted == read_json_file(knowledge_file)

AllHaveResponses(tier) == \A i \in 1..Len(tier) : tier[i].responses /= << >>

PairwiseDistinct(tier) ==
  \A i, j \in 1..Len(tier) : i /= j => tier[i].id /= tier[j].id

(***************************************************************************)
(* C11: in every reachable state every entry of the admin tier, in memory  *)
(* and in the persisted file, has a non-empty responses list; a creation   *)
(* with an empty responses list is answered 400, and an ingestion that     *)
(* yields no segment fails.                                                *)
(***************************************************************************)
C11_ResponsesNeverEmpty ==
  /\ AllHaveResponses(admin_knowledge)
  /\ AllHaveResponses(persisted)
  /\ ( /\ last.op = "add_knowledge"
       /\ last.req.body.responses /= None
       /\ last.req.body.responses[1].val = << >> ) => last.status = 400
  /\ (last.op = "upload_pdf_knowledge" /\ last.status = 200) =>
       admin_knowledge[Len(admin_knowledge)].responses /= << >>

\* an update whose body carries an empty responses list succeeded on an
\* entry that was saved, and the entry still has responses
C11_Witness ==
  /\ last.op = "update_knowledge"
  /\ last.status = 200
  /\ last.req.body.responses = List(<< >>)
  /\ last.req.id \in Ids(admin_knowledge)
  /\ knowledge_file = Some(admin_knowledge)
  /\ AllHaveResponses(admin_knowledge)

(***************************************************************************)
(* C12: after every step the ids of the admin tier are pairwise distinct,  *)
(* in memory and in the file; an update leaves the id of every entry as it *)
(* was, whatever its body holds, and no other step changes the id under    *)
(* which the content of a kept entry is found.                             *)
(***************************************************************************)
C12_IdStep ==
  /\ PairwiseDistinct(admin_knowledge')
  /\ PairwiseDistinct(read_json_file(knowledge_file'))
  /\ last'.op = "update_knowledge" =>
       /\ Len(admin_knowledge') = Len(admin_knowledge)
       /\ \A i \in 1..Len(admin_knowledge) :
            admin_knowledge'[i].id = admin_knowledge[i].id
  /\ last'.op \in { "add_knowledge", "upload_pdf_knowledge" } =>
       \A i \in 1..Len(admin_knowledge) :
         admin_knowledge'[i] = admin_knowledge[i]
  /\ last'.op = "delete_knowledge" =>
       \A i \in 1..Len(admin_knowledge') :
         \E j \in 1..Len(admin_knowledge) :
           admin_knowledge'[i] = admin_knowledge[j]
  /\ last'.op = "restart" =>
       /\ Len(admin_knowledge') = Len(read_json_file(knowledge_file))
       /\ \A i \in 1..Len(admin_knowledge') :
            admin_knowledge'[i].id = read_json_file(knowledge_file)[i].id

C12_IdImmutableAndUnique == [][C12_IdStep]_vars

\* an update whose body names the id of another entry of the tier succeeded
\* and the tier still holds both ids
C12_Witness ==
  /\ last.op = "update_knowledge"
  /\ last.status = 200
  /\ last.req.body.id /= None
  /\ last.req.body.id[1] /= last.req.id
  /\ { last.req.id, last.req.body.id[1] } \subseteq Ids(admin_knowledge)
  /\ Len(admin_knowledge) = 2

(***************************************************************************)
(* Overlapping requests, checked under SpecRaceKnowledge (admin tier) and  *)
(* SpecRaceLocations (location tier).                                      *)
(***************************************************************************)
\* thread t answers in this step
Completes(t) == Running(t) /\ inflight'[t].pc = "done"

\* thread u has answered 200 to a request that added an entry
AddedWithSuccess(u) ==
  /\ inflight[u].pc = "done"
  /\ inflight[u].status = 200
  /\ inflight[u].op = "add_knowledge"

(***************************************************************************)
(* C13: mutations of the admin tier that overlap are serialized: when an   *)
(* add reports success, the entry it created and the entry that another    *)
(* request has added with success, and that the tier still held, are both  *)
(* in the tier, in memory and on disk.                                     *)
(***************************************************************************)
C13_NoLostUpdate ==
  [][ \A t \in Threads :
        ( /\ Completes(t)
          /\ inflight'[t].status = 200
          /\ inflight'[t].op = "add_knowledge" ) =>
          /\ inflight[t].found \in Ids(admin_knowledge')
          /\ inflight[t].found \in Ids(read_json_file(knowledge_file'))
          /\ \A u \in Threads \ { t } :
               (AddedWithSuccess(u) /\ inflight[u].found \in Ids(admin_knowledge)) =>
                 /\ inflight[u].found \in Ids(admin_knowledge')
                 /\ inflight[u].found \in Ids(read_json_file(knowledge_file')) ]_vars

\* thread r reads its tier in this step
Reads(r, op) == inflight'[r] /= inflight[r] /\ inflight'[r].op = op

\* thread w is in the middle of the only mutation of a tier under way
Mutates(w, ops) == Running(w) /\ inflight[w].op \in ops /\ inflight[w].alone

\* the collection the mutation of w is to leave
PostMutation(w) ==
  LET frame == inflight[w]
      found == find_id(frame.before, frame.found)
  IN  IF frame.op = "update_knowledge"
        THEN update_in_place(frame.before, found, frame.req.body)
      ELSE IF frame.op = "update_location"
        THEN update_location_in_place(frame.before, found, frame.req.body)
      ELSE frame.entries

\* what a read may see while w mutates: the collection as w found it, or,
\* once w has saved, the collection w leaves
Snapshot(seen, w, saved) ==
  \/ seen = inflight[w].before
  \/ inflight[w].pc \in saved /\ seen = PostMutation(w)

(***************************************************************************)
(* C14: a GET /api/knowledge that overlaps an add, update or delete of the *)
(* admin tier sees the complete collection of before the mutation or the   *)
(* complete collection of after it, and the latter only once it has been   *)
(* persisted: never an entry with some fields replaced.                    *)
(***************************************************************************)
C14_SnapshotReadOfKnowledge ==
  [][ \A r \in Threads, w \in Threads :
        (r /= w /\ Reads(r, "get_knowledge") /\ Mutates(w, KnowledgeOps)) =>
          Snapshot(inflight'[r].seen, w, { "swap" }) ]_vars

(***************************************************************************)
(* C15: a GET /api/locations that overlaps an add, update or delete of the *)
(* location tier sees the list of before the mutation or, once the         *)
(* mutation is persisted, the list of after it: never an empty or partly   *)
(* refilled list, never an unsaved change.                                 *)
(***************************************************************************)
C15_SnapshotReadOfLocations ==
  [][ \A r \in Threads, w \in Threads :
        (r /= w /\ Reads(r, "list_locations") /\ Mutates(w, LocationOps)) =>
          Snapshot(inflight'[r].seen, w, { "clear", "extend" }) ]_vars

(***************************************************************************)
(* Properties of the scorer, checked under SpecScore.  The expected score  *)
(* is computed here from the words of the contract: sets of tokens, their  *)
(* intersections with the tokens of the message, and the caps.             *)
(***************************************************************************)
Scored == last.op = "_score_entry_match"

ScoredMessage == last.req.message

ScoredEntry == last.req.entry

\* the tokens of a message
TokensOf(text) == Range(_tokenize(text))

\* the tokens of a list of texts
TokensOfAll(texts) == UNION { TokensOf(texts[i]) : i \in 1..Len(texts) }

FirstTwo(responses) == SubSeq(responses, 1, Min(2, Len(responses)))

\* the positions of the keywords of entry, among those in wanted, that are
\* literal substrings of the lowercased message
KeywordsFound(message, entry, wanted) ==
  LET lowered == lower(message)
      at(k, a) == \A j \in 1..Len(k) : lowered[a + j] = k[j]
  IN  { i \in 1..Len(entry.keywords) :
          /\ entry.keywords[i] \in wanted
          /\ \E a \in 0..(Len(lowered) - Len(entry.keywords[i])) :
               at(entry.keywords[i], a) }

KeywordOverlap(message, entry) ==
  Cardinality(TokensOf(message) \cap TokensOfAll(entry.keywords))

TitleOverlap(message, entry) ==
  Cardinality(TokensOf(message) \cap TokensOf(entry.title))

ResponseOverlap(message, entry) ==
  Cardinality(TokensOf(message) \cap TokensOfAll(FirstTwo(entry.responses)))

OverlapSignals(message, entry) ==
  << Min(KeywordOverlap(message, entry), 4),
     Min(TitleOverlap(message, entry), 2),
     Min(ResponseOverlap(message, entry), 5) >>

SignalSum(message, entry) ==
  LET signals == OverlapSignals(message, entry)
  IN  signals[1] + signals[2] + signals[3]

(***************************************************************************)
(* C16, as stated: the score is 3 times the number of keywords of the      *)
(* entry that are literal substrings of the lowercased message, plus the   *)
(* three capped overlaps.  (The empty string is a literal substring of     *)
(* every message.)                                                         *)
(***************************************************************************)
C16_ScoreCountsEveryKeyword ==
  Scored =>
    last.total =
      3 * Cardinality(KeywordsFound(ScoredMessage, ScoredEntry,
                                    Range(ScoredEntry.keywords)))
        + SignalSum(ScoredMessage, ScoredEntry)

(***************************************************************************)
(* C16, amended: the score is a non-negative integer, 3 times the number   *)
(* of non-empty keywords of the entry that are literal substrings of the   *)
(* lowercased message, plus min(keyword token overlap, 4), min(title token *)
(* overlap, 2) and min(overlap with the tokens of the first two responses, *)
(* 5); no overlap gives more than its cap, and the responses after the     *)
(* second do not count.                                                    *)
(***************************************************************************)
C16_ScoreFormula ==
  Scored =>
    LET found == KeywordsFound(ScoredMessage, ScoredEntry,
                               Range(ScoredEntry.keywords) \ { << >> })
        entry_of_two == [ ScoredEntry EXCEPT !.responses = FirstTwo(@) ]
    IN  /\ last.total \in Nat
        /\ last.total = 3 * Cardinality(found)
                          + SignalSum(ScoredMessage, ScoredEntry)
        /\ last.total <= 3 * Cardinality(found) + 4 + 2 + 5
        /\ last.total = 3 * Cardinality(found)
                          + SignalSum(ScoredMessage, entry_of_two)

\* the message shares five tokens with the keywords, three with the title,
\* six with the first two responses and two with the third, and one keyword
\* is in it: the score is 3 + 4 + 2 + 5
C16_Witness ==
  /\ Scored
  /\ KeywordOverlap(ScoredMessage, ScoredEntry) > 4
  /\ TitleOverlap(ScoredMessage, ScoredEntry) > 2
  /\ ResponseOverlap(ScoredMessage, ScoredEntry) > 5
  /\ Len(ScoredEntry.responses) > 2
  /\ TokensOf(ScoredMessage) \cap TokensOf(ScoredEntry.responses[3]) /= {}
  /\ last.total = 14

(***************************************************************************)
(* C17: when a message is extended so that exactly one more keyword of the *)
(* entry is a literal substring of it, and the three overlap signals are   *)
(* what they were, the score of the entry is higher by exactly 3.          *)
(***************************************************************************)
OneMoreKeyword ==
  LET shorter == last.req.shorter[1].message
      keywords == Range(ScoredEntry.keywords) \ { << >> }
  IN  /\ Cardinality(KeywordsFound(ScoredMessage, ScoredEntry, keywords))
           = Cardinality(KeywordsFound(shorter, ScoredEntry, keywords)) + 1
      /\ OverlapSignals(ScoredMessage, ScoredEntry)
           = OverlapSignals(shorter, ScoredEntry)

C17_OneMoreKeywordAddsThree ==
  (Scored /\ last.req.shorter /= None /\ OneMoreKeyword) =>
    last.total = last.req.shorter[1].total + 3

\* the shorter message already scored on a keyword and on tokens
C17_Witness ==
  /\ Scored
  /\ last.req.shorter /= None
  /\ OneMoreKeyword
  /\ last.req.shorter[1].total > 3
  /\ last.total = last.req.shorter[1].total + 3

(***************************************************************************)
(* Properties of the ingestion, checked under SpecIngest.  They relate the *)
(* entry a successful upload appends to the pages and the form of the      *)
(* request.                                                                *)
(***************************************************************************)
Ingested == last.op = "upload_pdf_knowledge" /\ last.status = 200

\* the entry the last upload created
IngestedEntry == admin_knowledge[Len(admin_knowledge)]

\* the texts of the pages that have one, in the order of the document; none
\* when PdfReader raises
PagesOf(req) ==
  IF req.file[1].pages = None THEN << >>
  ELSE SelectSeq(req.file[1].pages[1], truthy)

\* a text with no blank-line boundary inside, no white space around and no
\* NUL character: the '\n\n' between two pages is then the only boundary
IsParagraph(text) ==
  /\ text /= << >>
  /\ text[1] \notin Whitespace
  /\ text[Len(text)] \notin Whitespace
  /\ \A i \in 1..Len(text) : text[i] /= NUL
  /\ ~ \E i \in 1..Len(text) :
         /\ text[i] = "\n"
         /\ \E j \in (i + 1)..Len(text) :
              /\ text[j] = "\n"
              /\ \A k \in (i + 1)..(j - 1) : text[k] \in Whitespace

\* the consecutive slices of ChunkSize characters of a paragraph
SlicesOf(paragraph) ==
  [ n \in 1..((Len(paragraph) + ChunkSize - 1) \div ChunkSize) |->
      SubSeq(paragraph, (n - 1) * ChunkSize + 1,
             Min(n * ChunkSize, Len(paragraph))) ]

FirstSegments(segments) == SubSeq(segments, 1, Min(MaxSegments, Len(segments)))

ParaOne == <<"P","a","r","a"," ","o","n","e",".">>

ParaTwo == <<"P","a","r","a"," ","t","w","o",".">>

NoKeywordSource(req) ==
  LET form_kw == IF req.form.keywords = None THEN << >> ELSE req.form.keywords[1]
      title == IF req.form.title /= None /\ req.form.title[1] /= << >>
                 THEN req.form.title[1]
                 ELSE splitext_root(secure_filename(req.file[1].filename))
      words(text) == { t \in Range(findall_alnum(lower(text))) : Len(t) > 2 }
  IN  /\ \A i \in 1..Len(form_kw) : form_kw[i] \in Whitespace \cup { "," }
      /\ words(title) = {}
      /\ \A i \in 1..Len(PagesOf(req)) : words(PagesOf(req)[i]) \subseteq _stopwords

HasText(req) ==
  \E i \in 1..Len(PagesOf(req)) :
    \E j \in 1..Len(PagesOf(req)[i]) :
      PagesOf(req)[i][j] \notin Whitespace \cup { NUL }

C19_KeywordStep ==
  last'.op = "upload_pdf_knowledge" =>
    /\ last'.status = 200 =>
         LET keywords == admin_knowledge'[Len(admin_knowledge')].keywords
         IN  /\ Len(admin_knowledge') = Len(admin_knowledge) + 1
             /\ Len(keywords) \in 1..MaxKeywords
             /\ \A i \in 1..Len(keywords) : keywords[i] /= << >>
             /\ \A i, j \in 1..Len(keywords) :
                  i /= j => keywords[i] /= keywords[j]
    /\ (HasText(last'.req) /\ NoKeywordSource(last'.req)) =>
         /\ last'.status = 400
         /\ last'.error = Some("keywords is required")
         /\ UNCHANGED << admin_knowledge, knowledge_file, next_uuid >>

C19_KeywordsBounded == [][C19_KeywordStep]_vars

\* the form supplied more than 25 keywords and the entry holds 25
C19_Witness ==
  /\ Ingested
  /\ last.req.form.keywords /= None
  /\ Cardinality({ i \in 1..Len(last.req.form.keywords[1]) :
                     last.req.form.keywords[1][i] = "," }) >= MaxKeywords
  /\ Len(IngestedEntry.keywords) = MaxKeywords

(***************************************************************************)
(* C20: an upload, accepted as a PDF and read without error, whose pages   *)
(* hold no character but white space (or none at all), is answered 400     *)
(* with the no-selectable-text error, and the admin tier is unchanged in   *)
(* memory and on disk, whatever keywords the form supplies.                *)
(***************************************************************************)
C20_BlankStep ==
  ( /\ last'.op = "upload_pdf_knowledge"
    /\ PresentsToken(last'.req.auth)
    /\ last'.req.file /= None
    /\ endswith(lower(last'.req.file[1].filename), PdfSuffix)
    /\ last'.req.file[1].pages /= None
    /\ ~ HasText(last'.req) ) =>
    /\ last'.status = 400
    /\ last'.error = Some("No selectable text found in PDF")
    /\ UNCHANGED << admin_knowledge, knowledge_file, next_uuid >>

C20_BlankDocumentFails == [][C20_BlankStep]_vars

\* pages of white space with a keyword in the form, refused on a tier that
\* holds a saved entry
C20_Witness ==
  /\ last.op = "upload_pdf_knowledge"
  /\ last.status = 400
  /\ last.error = Some("No selectable text found in PDF")
  /\ last.req.form.keywords /= None
  /\ PagesOf(last.req) /= << >>
  /\ ~ HasText(last.req)
  /\ admin_knowledge = << HoursEntry >>
  /\ knowledge_file = Some(admin_knowledge)

(***************************************************************************)
(* Properties of the tokenizer, checked under SpecTokenize.                *)
(***************************************************************************)
Tokenized == last.op = "_tokenize"

Tokens == last.text[1]

\* the maximal runs of ASCII letters and digits of text, left to right
RunsOf(text) ==
  LET run(a, b) == /\ \A k \in a..b : IsAlnum(text[k])
                   /\ a = 1 \/ ~ IsAlnum(text[a - 1])
                   /\ b = Len(text) \/ ~ IsAlnum(text[b + 1])
      firsts == { a \in 1..Len(text) :
                    IsAlnum(text[a]) /\ (a = 1 \/ ~ IsAlnum(text[a - 1])) }
      nth(n) == CHOOSE a \in firsts : Cardinality({ c \in firsts : c < a }) = n - 1
      upto(a) == CHOOSE b \in a..Len(text) : run(a, b)
  IN  [ n \in 1..Cardinality(firsts) |-> SubSeq(text, nth(n), upto(nth(n))) ]

NoStopwords(tokens) == SelectSeq(tokens, LAMBDA t : t \notin _stopwords)

WellFormed(tokens) ==
  \A i \in 1..Len(tokens) :
    /\ tokens[i] /= << >>
    /\ \A k \in 1..Len(tokens[i]) :
         tokens[i][k] \in Range(LowerCase) \cup Digits
    /\ tokens[i] \notin _stopwords

(***************************************************************************)
(* C21, as stated: the tokens are the maximal runs of ASCII letters and    *)
(* digits of the text, lowercased, without the stopwords.                  *)
(***************************************************************************)
C21_RunsOfTheText ==
  Tokenized =>
    LET runs == RunsOf(last.req)
    IN  Tokens = NoStopwords([ i \in 1..Len(runs) |-> lower(runs[i]) ])

(***************************************************************************)
(* What the code returns instead: the maximal runs of ASCII letters and    *)
(* digits of the lowercased text, without the stopwords; every token is    *)
(* non-empty, made of lowercase letters and digits, and no stopword.       *)
(***************************************************************************)
RunsOfTheLowercasedText ==
  Tokenized =>
    /\ Tokens = NoStopwords(RunsOf(lower(last.req)))
    /\ WellFormed(Tokens)

(***************************************************************************)
(* Properties of rejected uploads and of the title keywords, checked under *)
(* SpecIngest.                                                             *)
(***************************************************************************)
\* the last step was an upload refused for its file type, for a document
\* PdfReader cannot read, for the lack of text or for the lack of keywords
RejectedUpload ==
  /\ last'.op = "upload_pdf_knowledge"
  /\ last'.error \in { Some("Only PDF files are supported"),
                       Some("Failed to extract PDF text"),
                       Some("No selectable text found in PDF"),
                       Some("keywords is required") }

C22_RejectedStep ==
  RejectedUpload => UNCHANGED << admin_knowledge, knowledge_file, uploads >>

(***************************************************************************)
(* C22: an upload that is rejected for its file type, because the text     *)
(* cannot be extracted, because there is no text or because no keyword can *)
(* be derived leaves the admin tier, the knowledge file and the upload     *)
(* directory as they were before the request.                              *)
(***************************************************************************)
C22_RejectedBeforeAnyMutation == [][C22_RejectedStep]_vars

\* what the code keeps: the tier and the file, and the directory when the
\* name of the file is refused
RejectedKeepsTier ==
  [][ RejectedUpload =>
        /\ UNCHANGED << admin_knowledge, knowledge_file, next_uuid >>
        /\ last'.error = Some("Only PDF files are supported") => UNCHANGED uploads
    ]_vars

\* the title of an upload: the form field, or the file name without suffix
TitleOf(req) ==
  IF req.form.title /= None /\ req.form.title[1] /= << >>
    THEN req.form.title[1]
    ELSE splitext_root(secure_filename(req.file[1].filename))

\* the first at most 5 tokens longer than 2 characters the Tokenizer returns
\* on the title
TitleKeywords(req) ==
  LET long == SelectSeq(_tokenize(TitleOf(req)), LAMBDA t : Len(t) > 2)
  IN  { long[i] : i \in 1..Min(Len(long), MaxTitleTokens) }

FormKeywords(req) ==
  IF req.form.keywords = None THEN {}
  ELSE Range(form_keywords(req.form.keywords[1]))

TextKeywords(req) ==
  frequent_tokens(strip_nul(join_pages(PagesOf(req))))

(***************************************************************************)
(* C26: the keywords of an ingested entry that come from the title are the *)
(* first at most 5 tokens longer than 2 characters of the Tokenizer's      *)
(* output on the title: where at most 25 keywords are derived, the         *)
(* keywords of the entry are those of the form, those title tokens and the *)
(* frequent tokens of the text, and a keyword that comes from the title    *)
(* only is no stopword.                                                    *)
(***************************************************************************)
C26_TitleKeywordsFromTokenizer ==
  Ingested =>
    LET req == last.req
        expected == FormKeywords(req) \cup TitleKeywords(req) \cup TextKeywords(req)
        keywords == Range(IngestedEntry.keywords)
    IN  /\ Cardinality(expected) <= MaxKeywords => keywords = expected
        /\ \A k \in keywords \ (FormKeywords(req) \cup TextKeywords(req)) :
             k \notin _stopwords

(***************************************************************************)
(* Properties of the reload, checked under SpecTier.                       *)
(***************************************************************************)
Reloaded == last'.op = "restart"

C23_ReloadStep ==
  (Reloaded /\ knowledge_file /= None) =>
    /\ Len(admin_knowledge') = Len(knowledge_file[1])
    /\ \A i \in 1..Len(knowledge_file[1]) :
         LET saved == knowledge_file[1][i]
             loaded == admin_knowledge'[i]
         IN  /\ loaded.id = saved.id
             /\ loaded.title = saved.title
             /\ loaded.keywords = saved.keywords
             /\ loaded.responses = saved.responses
             /\ loaded.created_at = saved.created_at
             /\ loaded.source_pdf = saved.source_pdf

(***************************************************************************)
(* C23: a restart that reloads the admin tier from the file written by     *)
(* add, update and ingestion yields, entry by entry, the saved id, title,  *)
(* keywords, responses, created_at and source document.                    *)
(***************************************************************************)
C23_ReloadRoundTrip == [][C23_ReloadStep]_vars

\* what the reload keeps: every field but the source document
ReloadKeepsFiveFields ==
  [][ (Reloaded /\ knowledge_file /= None) =>
        /\ Len(admin_knowledge') = Len(knowledge_file[1])
        /\ \A i \in 1..Len(knowledge_file[1]) :
             admin_knowledge'[i] =
               [ knowledge_file[1][i] EXCEPT !.source_pdf = None ]
    ]_vars

(***************************************************************************)
(* Properties of the source metadata, checked under SpecAnswer.            *)
(***************************************************************************)
\* the source metadata of the last answer describes entry
SourceOf(entry) ==
  last.source = Some([ type       |-> "admin",
                       id         |-> entry.id,
                       title      |-> entry.title,
                       source_pdf |-> entry.source_pdf ])

\* the admin entry that answers message, 0 when none does
Winner(message) ==
  IF admin_matches(admin_knowledge, message)
    THEN rank(admin_scores(admin_knowledge, message))
    ELSE 0

\* response, with the source of the winning entry, is among the results the
\* selector can return for message
CanAnswer(message, response) ==
  \E result \in get_response_with_meta(admin_knowledge, message, now) :
    /\ result.branch = "admin"
    /\ result.chosen = response
    /\ result.source[1].id = admin_knowledge[Winner(message)].id

(***************************************************************************)
(* C24: when the admin branch answers, the reply without the follow-up     *)
(* suffix is a response of the winning admin entry, and the source         *)
(* metadata has type admin and the id, title and source document of that   *)
(* entry; when the built-in or the default branch answers the source is    *)
(* none; and wherever an admin entry wins a query, each of its responses   *)
(* is a possible answer.                                                   *)
(***************************************************************************)
C24_AdminSource ==
  /\ LastChat =>
       IF last.branch = "admin"
         THEN \E i \in 1..Len(admin_knowledge) :
                /\ i = Winner(LastMessage)
                /\ IsEarliestMax(AdminScores, i)
                /\ LastChosen \in Range(admin_knowledge[i].responses)
                /\ LastReply \in { LastChosen, LastChosen \o FollowUp }
                /\ SourceOf(admin_knowledge[i])
         ELSE last.branch \in { "builtin", "default" } /\ last.source = None
  /\ \A m \in AnswerMessages :
       (Winner(m) /= 0 /\ Len(conversation_history) < 2 * MaxChats) =>
         \A r \in Range(admin_knowledge[Winner(m)].responses) : CanAnswer(m, r)

\* an ingested entry answered with its second segment, and the source names
\* the stored document
C24_Witness ==
  /\ LastChat
  /\ last.branch = "admin"
  /\ last.source[1].source_pdf = Some(<<"m","_","p",".","P","D","F">>)
  /\ Len(admin_knowledge[Winner(LastMessage)].responses) = 2
  /\ LastChosen = admin_knowledge[Winner(LastMessage)].responses[2]
  /\ LastReply = LastChosen \o FollowUp

(***************************************************************************)
(* Properties of the update, checked under SpecTier.                       *)
(***************************************************************************)
\* field of the body is supplied as a non-empty list
Supplied(field) == field /= None /\ field[1].list /\ field[1].val /= << >>

C25_UpdateStep ==
  (last'.op = "update_knowledge" /\ last'.status = 200) =>
    LET body == last'.req.body
        X == { i \in 1..Len(admin_knowledge) :
                 admin_knowledge[i].id = last'.req.id }
    IN  /\ Cardinality(X) = 1
        /\ Len(admin_knowledge') = Len(admin_knowledge)
        /\ \A i \in 1..Len(admin_knowledge) :
             LET old == admin_knowledge[i]
                 new == admin_knowledge'[i]
             IN  IF i \notin X THEN new = old
                 ELSE /\ new.id = old.id
                      /\ new.created_at = old.created_at
                      /\ new.source_pdf = old.source_pdf
                      /\ new.title = IF body.title /= None
                                       THEN body.title[1] ELSE old.title
                      /\ new.keywords = IF Supplied(body.keywords)
                                          THEN lower_all(body.keywords[1].val)
                                          ELSE old.keywords
                      /\ new.responses = IF Supplied(body.responses)
                                           THEN body.responses[1].val
                                           ELSE old.responses
        /\ knowledge_file' = Some(admin_knowledge')

(***************************************************************************)
(* C25: a successful update of entry X replaces its title when one is      *)
(* supplied, and its keywords and its responses when they are supplied as  *)
(* non-empty lists; the other fields of X, every other entry and the order *)
(* of the tier are unchanged.                                              *)
(***************************************************************************)
C25_UpdateFrame == [][C25_UpdateStep]_vars

\* the second of two entries was updated with a title, an empty list of
\* keywords and a response: it kept its keywords and its source document
C25_Witness ==
  /\ last.op = "update_knowledge"
  /\ last.status = 200
  /\ last.req.body.keywords = List(<< >>)
  /\ Len(admin_knowledge) = 2
  /\ admin_knowledge[2].id = last.req.id
  /\ admin_knowledge[2].title = last.req.body.title[1]
  /\ admin_knowledge[2].responses = last.req.body.responses[1].val
  /\ admin_knowledge[2].keywords /= << >>
  /\ admin_knowledge[2].source_pdf /= None

(***************************************************************************)
(* Properties of the order of the tier, checked under SpecOrder.  The      *)
(* identifiers are handed out in increasing order, so the id of an entry   *)
(* tells when it was created.                                              *)
(***************************************************************************)
Succeeded(op) == last'.op = op /\ last'.status \in { 200, 201 }

\* the entries of the tier, oldest first
InCreationOrder(tier) ==
  \A i, j \in 1..Len(tier) : i < j => tier[i].id < tier[j].id

\* the kept entries are in the order they had
KeptInOrder(old, new) ==
  \A a, b \in 1..Len(old) : \A i, j \in 1..Len(new) :
    (a < b /\ old[a].id = new[i].id /\ old[b].id = new[j].id) => i < j

C27_OrderStep ==
  /\ (Succeeded("add_knowledge") \/ Succeeded("upload_pdf_knowledge")) =>
       /\ Len(admin_knowledge') = Len(admin_knowledge) + 1
       /\ SubSeq(admin_knowledge', 1, Len(admin_knowledge)) = admin_knowledge
       /\ \A i \in 1..Len(admin_knowledge) :
            admin_knowledge[i].id /= admin_knowledge'[Len(admin_knowledge')].id
  /\ Succeeded("delete_knowledge") =>
       /\ \A i \in 1..Len(admin_knowledge') :
            admin_knowledge'[i].id /= last'.req.id
       /\ \A i \in 1..Len(admin_knowledge) :
            admin_knowledge[i].id /= last'.req.id =>
              \E j \in 1..Len(admin_knowledge') :
                admin_knowledge'[j] = admin_knowledge[i]
       /\ Len(admin_knowledge') < Len(admin_knowledge)
  /\ Succeeded("update_knowledge") =>
       /\ Len(admin_knowledge') = Len(admin_knowledge)
       /\ \A i \in 1..Len(admin_knowledge) :
            admin_knowledge'[i].id = admin_knowledge[i].id
  /\ KeptInOrder(admin_knowledge, admin_knowledge')
  /\ InCreationOrder(admin_knowledge')
  /\ (Succeeded("chat") /\ last'.branch = "admin") =>
       LET scores == admin_scores(admin_knowledge', strip(last'.req[1]))
       IN  \E w \in 1..Len(admin_knowledge') :
             /\ last'.source[1].id = admin_knowledge'[w].id
             /\ \A j \in 1..Len(admin_knowledge') :
                  scores[j] = scores[w] =>
                    admin_knowledge'[w].id <= admin_knowledge'[j].id

(***************************************************************************)
(* C27: a successful add or ingestion appends the new entry at the end of  *)
(* the admin tier, a successful delete removes exactly the entries with    *)
(* the given id, a successful update keeps every entry at its position; so *)
(* the entries of the tier are always in the order of their creation, and  *)
(* of two entries with the same score the older one answers.               *)
(***************************************************************************)
C27_StableOrder == [][C27_OrderStep]_vars

\* two entries score the same on the query, the first was updated, and the
\* older one answered
C27_Witness ==
  /\ LastChat
  /\ last.branch = "admin"
  /\ Len(admin_knowledge) = 2
  /\ AdminScores[1] = AdminScores[2]
  /\ last.source[1].id = admin_knowledge[1].id
  /\ admin_knowledge[1].title = <<"B","u","s">>
  /\ admin_knowledge[1].id < admin_knowledge[2].id

====
